---- MODULE Spec2Model ----
(***************************************************************************)
(* Model of the acquisition pipeline of VideoDownCut-api:                  *)
(*   - the Process Runner        (utils/videoUtils.ts  execCommand)        *)
(*   - the Partial-File Janitor  (utils/videoUtils.ts  cleanupPartFiles)   *)
(*   - the Download Orchestrator (utils/videoUtils.ts  downloadVideo,      *)
(*                                directTikTokDownload)                    *)
(*   - the download request      (services/videoService.ts downloadVideo)  *)
(*   - the Identifier Resolver   (utils/videoUtils.ts  extractVideoId,     *)
(*                                isValidVideoId; routes validateVideoId)  *)
(*   - the Cookie/Auth Selector  (utils/videoUtils.ts  cookieArgs;         *)
(*                                utils/cookieConverter.ts)                *)
(*   - the Artifact Post-Processor (utils/videoUtils.ts cutVideo,          *)
(*                                convertToMp3)                            *)
(*   - the configured limit      (config/env.ts  MAX_EXTRACT_DURATION)     *)
(*   - getVideoPath              (services/videoService.ts)                *)
(*   - range streaming           (utils/streamUtils.ts  streamFile)        *)
(*                                                                         *)
(* The specifications share the variables of this module:                  *)
(*   SpecRunner     one execCommand call, one step per process exit/timer  *)
(*   SpecJanitor    cleanupPartFiles runs over a directory, one step per   *)
(*                  await                                                  *)
(*   Spec           concurrent download requests, one step per await       *)
(*   SpecResolver   one URL: extractVideoId, the download, a follow-up     *)
(*                  request with the returned videoId                      *)
(*   SpecCookieArgs the commands of a request under one cookie             *)
(*                  configuration                                          *)
(*   SpecCookieFile ensureNetscapeCookies calls on a cookie file           *)
(*   SpecTranscode  one cutVideo or convertToMp3 call                      *)
(*   SpecScan       one download request under a configured maximum        *)
(*                  duration, the storage root may hold an orphaned        *)
(*                  partial download                                       *)
(*   SpecCounters   fast-path download requests and getVideoPath calls on  *)
(*                  stored records                                         *)
(*   SpecStream     one streamFile call                                    *)
(***************************************************************************)
EXTENDS Integers, Sequences, FiniteSets, TLC

(***************************************************************************)
(* Bounds of the model                                                     *)
(***************************************************************************)
\* largest value of the `retries` argument of execCommand that is explored
MaxRetriesArg == 3
\* number of consecutive cleanupPartFiles calls explored by SpecJanitor
MaxJanitorRuns == 2
\* number of consecutive ensureNetscapeCookies calls explored
MaxEnsureCalls == 2
\* largest number of lines of a cookie file explored
MaxCookieLines == 2

(***************************************************************************)
(* Program constants                                                       *)
(***************************************************************************)
\* default of the `retries` parameter of execCommand
DefaultRetries == 3

VARIABLES
    \* ---- Process Runner (execCommand) ----
    command,      \* the command line of the running execCommand call
    retries,      \* its `retries` argument
    attempt,      \* the `attempt` argument of the latest attemptCommand
    xpc,          \* "idle" | "running" | "backoff" | "resolved" | "rejected"
    started,      \* history: the command line of every exec() started
    exits,        \* history: the (error, stdout, stderr) of every exec callback
    settled,      \* history: every resolve()/reject() call of the promise
    \* ---- file system under the storage root ----
    dirs,         \* the directories that exist
    files,        \* files[d]: the names of the files in directory d
    \* ---- Partial-File Janitor (cleanupPartFiles) ----
    jpc,          \* "idle" | "sweep" | "returned"
    jArgs,        \* the arguments (outputPath, videoId) of the running call
    jTodo,        \* the partFiles the for-loop has not visited yet
    jLog,         \* the unlink calls of the running call, in order
    jBefore,      \* the directory content when the running call began
    jRuns,        \* history: one summary per finished call
    \* ---- record store and download requests ----
    db,           \* the rows of table `videos`
    req,          \* req[r]: the locals and the position of download request r
    \* ---- Identifier Resolver and the follow-up routes ----
    rpc,          \* "new" | "resolved" | "downloaded" | "failed" | "accepted" | "rejected"
    rUrl,         \* the URL of the download request
    rId,          \* what extractVideoId returned for rUrl
    \* ---- Cookie/Auth Strategy Selector ----
    env,          \* the cookie configuration (cookiesBrowser, cookiesProfile, cookiesFile)
    cookieOnDisk, \* the cookie files that exist
    cookieText,   \* cookieText[p]: the lines of cookie file p
    built,        \* history: the extraction-tool commands built, by kind
    ensureLog,    \* history: the ensureNetscapeCookies calls, in order
    \* ---- Artifact Post-Processor ----
    tpc,          \* "idle" | "cut" | "cut-done" | "cut-failed" | "mp3" | "mp3-done" | "mp3-failed"
    spawns,       \* history: the spawn('ffmpeg', ...) calls of convertToMp3
    tcall,        \* the arguments of the cutVideo/convertToMp3 call and its outputFilePath
    \* ---- Configuration, getVideoPath callers, streamFile ----
    maxExtractDuration, \* env.maxExtractDuration
    gvp,          \* gvp[c]: the locals of getVideoPath call c
    stream        \* the request and the response of one streamFile call

runnerVars == <<command, retries, attempt, xpc, started, exits, settled>>
fsVars == <<dirs, files>>
janitorVars == <<jpc, jArgs, jTodo, jLog, jBefore, jRuns>>
pipeVars == <<db, req>>
resolverVars == <<rpc, rUrl, rId>>
cookieVars == <<env, cookieOnDisk, cookieText, built, ensureLog>>
transcodeVars == <<tpc, spawns, tcall>>
serviceVars == <<maxExtractDuration, gvp, stream>>
auxVars == <<resolverVars, cookieVars, transcodeVars, serviceVars>>
coreVars == <<runnerVars, fsVars, janitorVars, pipeVars>>
exceptResolver == <<coreVars, cookieVars, transcodeVars, serviceVars>>
exceptCookies == <<coreVars, resolverVars, transcodeVars, serviceVars>>

(***************************************************************************)
(* Strings that the code takes apart are sequences of tokens               *)
(* ("tiktok_7.mp4.part" is <<"tiktok_", "7", ".mp4", ".part">>); the empty *)
(* sequence is the empty string, which JavaScript treats as falsy.         *)
(***************************************************************************)
\* String.prototype.endsWith for a one-token suffix
endsWith(s, tok) == Len(s) > 0 /\ s[Len(s)] = tok

\* String.prototype.startsWith
startsWith(s, p) == Len(p) <= Len(s) /\ SubSeq(s, 1, Len(p)) = p

\* String.prototype.includes on file names
nameIncludes(s, p) ==
    \E i \in 1..(Len(s) + 1) :
        i + Len(p) - 1 <= Len(s) /\ SubSeq(s, i, i + Len(p) - 1) = p

\* identifiers (MediaIdentifier); a directory under the storage root is named
\* by the identifier
Tok == {"7", "Z"}
PlainIds == {<<t>> : t \in Tok}
Ids == PlainIds \cup {<<"tiktok_", t>> : t \in Tok} \cup {<<"instagram_", t>> : t \in Tok}
Dirs == Ids
NoId == <<>>

(***************************************************************************)
(* Partial-File Janitor                                                    *)
(***************************************************************************)
\* videoUtils.ts:22  files.filter(file => file.endsWith('.part'))
partFilesOf(fileSet) == {f \in fileSet : endsWith(f, ".part")}

\* videoUtils.ts:26  the loop skips a part file that does not contain videoId
SkippedByScope(partFile, videoId) == videoId # NoId /\ ~nameIncludes(partFile, videoId)

\* the files a sweep of `fileSet` scoped to `videoId` tries to unlink
SweepTargets(fileSet, videoId) ==
    {f \in partFilesOf(fileSet) : ~SkippedByScope(f, videoId)}

\* mutant: the loop is left after the first successful unlink
RestAfterUnlinkBreak(todo, f) == {}

\* videoUtils.ts:24,32-33  the for-loop goes on after a successful unlink
RestAfterUnlink(todo, f) == todo \ {f}

\* mutant: an unlink failure ends the sweep
RestAfterFailureAbort(todo, f) == {}

\* videoUtils.ts:34-36  the unlink failure is caught and logged inside the
\* loop, which goes on
RestAfterFailure(todo, f) == todo \ {f}

JanitorIdle ==
    /\ jpc = "idle"
    /\ jArgs = [outputPath |-> <<>>, videoId |-> NoId]
    /\ jTodo = {}
    /\ jLog = <<>>
    /\ jBefore = {}
    /\ jRuns = <<>>

JanitorSummary(listed, after) ==
    [outputPath |-> jArgs.outputPath, videoId |-> jArgs.videoId,
     existed |-> jArgs.outputPath \in dirs, listed |-> listed,
     before |-> jBefore, after |-> after, log |-> jLog, raised |-> FALSE]

\* videoUtils.ts:15-22  cleanupPartFiles(outputPath, videoId) up to the loop:
\* the existence test, the listing (which may fail) and the filter
CleanupCall(outputPath, videoId, listingOk) ==
    /\ jpc \in {"idle", "returned"}
    /\ Len(jRuns) < MaxJanitorRuns
    /\ jArgs' = [outputPath |-> outputPath, videoId |-> videoId]
    /\ jBefore' = files[outputPath]
    /\ jLog' = <<>>
    /\ IF outputPath \notin dirs \/ ~listingOk
         THEN \* line 18 (return) or lines 38-40 (the listing error is caught)
              /\ jpc' = "returned"
              /\ jTodo' = {}
              /\ jRuns' = Append(jRuns,
                    [outputPath |-> outputPath, videoId |-> videoId,
                     existed |-> outputPath \in dirs, listed |-> FALSE,
                     before |-> files[outputPath], after |-> files[outputPath],
                     log |-> <<>>, raised |-> FALSE])
         ELSE /\ jpc' = "sweep"
              /\ jTodo' = partFilesOf(files[outputPath])
              /\ UNCHANGED jRuns
    /\ UNCHANGED <<fsVars, runnerVars, pipeVars, auxVars>>

\* videoUtils.ts:24-37  one iteration of the loop over partFiles
CleanupVisit(partFile, unlinkOk) ==
    /\ jpc = "sweep"
    /\ partFile \in jTodo
    /\ IF SkippedByScope(partFile, jArgs.videoId)
         THEN /\ jTodo' = jTodo \ {partFile}
              /\ UNCHANGED <<files, jLog>>
         ELSE IF unlinkOk /\ partFile \in files[jArgs.outputPath]
                THEN /\ files' = [files EXCEPT ![jArgs.outputPath] = @ \ {partFile}]
                     /\ jLog' = Append(jLog, [file |-> partFile, ok |-> TRUE])
                     /\ jTodo' = RestAfterUnlink(jTodo, partFile)
                ELSE /\ jLog' = Append(jLog, [file |-> partFile, ok |-> FALSE])
                     /\ jTodo' = RestAfterFailure(jTodo, partFile)
                     /\ UNCHANGED files
    /\ UNCHANGED <<dirs, jpc, jArgs, jBefore, jRuns, runnerVars, pipeVars, auxVars>>

\* videoUtils.ts:37,41  the loop is over: the call returns
CleanupReturn ==
    /\ jpc = "sweep"
    /\ jTodo = {}
    /\ jpc' = "returned"
    /\ jRuns' = Append(jRuns, JanitorSummary(TRUE, files[jArgs.outputPath]))
    /\ UNCHANGED <<fsVars, jArgs, jTodo, jLog, jBefore, runnerVars, pipeVars, auxVars>>


(***************************************************************************)
(* Process Runner: values                                                  *)
(***************************************************************************)
\* command lines handed to execCommand (two distinct ones suffice to tell
\* "the same command line" from "another one")
Commands == {"yt-dlp -o A", "ffprobe B"}

\* Captured stderr is modelled as the set of diagnostic phrases it contains;
\* String.includes(p) is membership of p.
LockPhrases == {"WinError 32", "cannot access the file", "being used by another process"}
StderrTexts ==
    { {}, {"WinError 32"}, {"cannot access the file"},
      {"being used by another process"}, {"Permission denied"},
      {"Permission denied", "WinError 32"}, {"Unsupported URL"} }

includes(text, phrase) == phrase \in text

ExitCodes == {1, 2}
Stdouts == {"", "out"}

\* what the exec callback receives: error (null or with a code), stdout, stderr
ProcessExits ==
    [err : {FALSE}, code : {0}, stdout : Stdouts, stderr : {{}}]
    \cup [err : {TRUE}, code : ExitCodes, stdout : {""}, stderr : StderrTexts]

\* videoUtils.ts:58-60
isRetryableError(stderr) ==
    \/ includes(stderr, "WinError 32")
    \/ includes(stderr, "cannot access the file")
    \/ includes(stderr, "being used by another process")

\* mutant: the retry is not bounded by `retries`
ShouldRetryUnbounded(stderr, att, max) == isRetryableError(stderr)

\* videoUtils.ts:62  if (isRetryableError && attempt < retries)
ShouldRetry(stderr, att, max) == isRetryableError(stderr) /\ att < max

\* mutant: a file-lock failure is surfaced as an error of its own kind
CommandErrorDistinct(code, stderr) ==
    [name |-> IF isRetryableError(stderr) THEN "FileLockError" ELSE "Error",
     text |-> "Command failed with code", code |-> code, stderr |-> stderr]

\* videoUtils.ts:68  new Error(`Command failed with code ${code}: ${stderr}`)
CommandError(code, stderr) ==
    [name |-> "Error", text |-> "Command failed with code",
     code |-> code, stderr |-> stderr]

(***************************************************************************)
(* Process Runner: actions                                                 *)
(***************************************************************************)
\* videoUtils.ts:48-50  attemptCommand(n): exec(command, ...) is started
attemptCommand(n) ==
    /\ attempt' = n
    /\ started' = Append(started, command')
    /\ xpc' = "running"

\* videoUtils.ts:44-47,76  execCommand(command, retries): attemptCommand(1)
ExecCommand(c, r) ==
    /\ xpc = "idle"
    /\ command' = c
    /\ retries' = r
    /\ attemptCommand(1)
    /\ UNCHANGED <<exits, settled, fsVars, janitorVars, pipeVars, auxVars>>

\* videoUtils.ts:52-72  the exec callback
ExecCallback(o) ==
    /\ xpc = "running"
    /\ exits' = Append(exits, o)
    /\ IF o.err
         THEN IF ShouldRetry(o.stderr, attempt, retries)
                THEN /\ xpc' = "backoff"
                     /\ UNCHANGED settled
                ELSE /\ xpc' = "rejected"
                     /\ settled' = Append(settled,
                            [type |-> "reject", value |-> CommandError(o.code, o.stderr)])
         ELSE /\ xpc' = "resolved"
              /\ settled' = Append(settled, [type |-> "resolve", value |-> o.stdout])
    /\ UNCHANGED <<command, retries, attempt, started, fsVars, janitorVars, pipeVars, auxVars>>

\* videoUtils.ts:64  setTimeout(() => attemptCommand(attempt + 1), 2000) fires
RetryTimer ==
    /\ xpc = "backoff"
    /\ command' = command
    /\ attemptCommand(attempt + 1)
    /\ UNCHANGED <<retries, exits, settled, fsVars, janitorVars, pipeVars, auxVars>>

(***************************************************************************)
(* URLs and the Identifier Resolver                                        *)
(* A URL is the record of its host, the shape of its path/query and the    *)
(* token it carries.                                                       *)
(***************************************************************************)
UrlYouTube == [host |-> "www.youtube.com", form |-> "watch", tok |-> "7"]
UrlTikTok == [host |-> "www.tiktok.com", form |-> "video", tok |-> "7"]
UrlTikTokLogin == [host |-> "www.tiktok.com", form |-> "login", tok |-> "7"]
UrlTikTokShort == [host |-> "vm.tiktok.com", form |-> "short", tok |-> "Z"]
UrlInstagram == [host |-> "www.instagram.com", form |-> "p", tok |-> "Z"]
UrlInstagramEntry == [host |-> "www.instagram.com", form |-> "p", tok |-> "7"]
NoUrl == [host |-> "", form |-> "", tok |-> ""]

\* the URLs that download requests are made for
RequestUrls == {UrlYouTube, UrlTikTok, UrlTikTokShort, UrlInstagram}

\* videoUtils.ts:446  url.includes('tiktok.com') || url.includes('vm.tiktok')
isTikTokUrl(url) == url.host \in {"www.tiktok.com", "vm.tiktok.com"}

\* videoUtils.ts:447  url.includes('vm.tiktok.com')
isShortTikTokUrl(url) == url.host = "vm.tiktok.com"

\* videoUtils.ts:452, videoService.ts:61  url.includes('tiktok.com/login?redirect_url=')
isLoginRedirect(url) == url.host = "www.tiktok.com" /\ url.form = "login"

\* videoUtils.ts:857-901  cleanTikTokUrl: the decoded redirect_url parameter
cleanTikTokUrl(url) ==
    IF isLoginRedirect(url) THEN [url EXCEPT !.form = "video"] ELSE url

\* videoUtils.ts:99-207  extractVideoId; <<>> stands for null
extractVideoId(url) ==
    CASE url.host = "www.youtube.com" /\ url.form = "watch" -> <<url.tok>>
      [] url.host = "vm.tiktok.com" -> <<"tiktok_", url.tok>>
      [] url.host = "www.tiktok.com" /\ url.form \in {"video", "login", "embed"} ->
            <<"tiktok_", url.tok>>
      [] url.host = "www.instagram.com" /\ url.form \in {"p", "reel", "share"} ->
            <<"instagram_", url.tok>>
      [] OTHER -> <<>>

\* the identifier the extraction tool itself reports, %(id)s of the output
\* template (videoUtils.ts:520, 571)
ToolId(url) == <<url.tok>>

\* the first video entry a metadata dump of `url` may list, entries[] of
\* videoService.ts:111-118 (only a carousel post lists entries)
EntryUrls(url) ==
    IF url = UrlInstagram THEN {NoUrl, UrlInstagram, UrlInstagramEntry} ELSE {NoUrl}

(***************************************************************************)
(* Paths and files                                                         *)
(***************************************************************************)
NoPath == [dir |-> <<>>, name |-> <<>>]

\* path.join(dir, name)
pathJoin(dir, name) == [dir |-> dir, name |-> name]

\* fs.existsSync(path)
existsSync(path) == path.dir \in dirs /\ path.name \in files[path.dir]

\* fs.readdir(dir) of a directory that exists
DirFiles(dir) == IF dir \in Dirs THEN files[dir] ELSE {}

\* containers the extraction tool picks for %(ext)s
Exts == {".mp4", ".webm"}

\* videoService.ts:82,105,137  the 30 minute limit, in seconds
MaxDurationSeconds == 1800

\* durations the media tool measures: under and over the limit
Durations == {100, 2000}

\* videoUtils.ts:728  parseFloat(output.trim()) of an ffprobe output that is
\* no number ("N/A" for a file of unknown duration): NaN, written as a number
\* below every duration, so that `NaN > limit` is false as in JavaScript
NaN == -1

(***************************************************************************)
(* The extraction tool, as the orchestrator observes it: the exit status   *)
(* that execCommand surfaces, whether a media file was written, the        *)
(* container chosen, and the "[download] Destination:" line of stdout      *)
(* ("real": the file written; "temp": an intermediate file that is gone    *)
(* when the tool exits; "none": no such line).                             *)
(***************************************************************************)
ToolRuns ==
    [ok : {FALSE}, wrote : {FALSE}, ext : {".mp4"}, dest : {"none"}]
    \cup [ok : {TRUE}, wrote : {TRUE}, ext : Exts, dest : {"real", "temp", "none"}]
    \cup [ok : {TRUE}, wrote : {FALSE}, ext : {".mp4"}, dest : {"none"}]

\* the file a run with the output template <dir>/%(id)s.%(ext)s writes
TemplateFile(url, run) == <<url.tok, run.ext>>

\* videoUtils.ts:544,651  output.match(/\[download\] Destination: (.+)/)
DestinationOf(dir, url, run) ==
    CASE run.dest = "real" -> pathJoin(dir, TemplateFile(url, run))
      [] run.dest = "temp" -> pathJoin(dir, <<url.tok, ".f1", run.ext>>)
      [] OTHER -> NoPath

\* the directory content after the tool has run
FilesAfterRun(dir, name, run) ==
    IF run.wrote /\ dir \in dirs
      THEN [files EXCEPT ![dir] = @ \cup {name}]
      ELSE files

(***************************************************************************)
(* Record store                                                            *)
(***************************************************************************)
NoRecord == [videoId |-> <<>>, url |-> NoUrl, filePath |-> NoPath,
             duration |-> 0, downloadCount |-> 0, accessCount |-> 0]

\* videoRepository.findOne({ where: { videoId } })
findOne(videoId) ==
    IF \E v \in db : v.videoId = videoId
      THEN CHOOSE v \in db : v.videoId = videoId
      ELSE NoRecord

(***************************************************************************)
(* Download requests                                                       *)
(***************************************************************************)
Reqs == {"r1", "r2"}

\* the `command` property of an error: the command line of an extraction-tool
\* invocation (named by its strategy and its URL), or none
NoCommand == [kind |-> "", url |-> NoUrl]

NoResult == [status |-> "none", error |-> "", command |-> NoCommand, video |-> NoRecord]

NewRequest ==
    [pc |-> "new", arg |-> NoUrl, url |-> NoUrl, videoId |-> <<>>,
     videoDir |-> <<>>, existing |-> NoRecord, strategy |-> "none",
     out |-> NoPath, filePath |-> NoPath, duration |-> 0, log |-> <<>>,
     returned |-> FALSE, retExisted |-> FALSE, primaryFailed |-> FALSE,
     measured |-> FALSE, later |-> FALSE, overlap |-> FALSE, scanned |-> FALSE,
     countBefore |-> 0, result |-> NoResult]

PipeIdle ==
    /\ db = {}
    /\ req = [r \in Reqs |-> NewRequest]

\* the request's locals after it has ended with an error whose `command`
\* property is `commandLine`
FailedWith(rec, kind, commandLine) ==
    [rec EXCEPT !.pc = "done",
                !.result = [status |-> "error", error |-> kind, command |-> commandLine,
                            video |-> NoRecord]]

\* the request's locals after it has ended with an error that has no
\* `command` property
Failed(rec, kind) == FailedWith(rec, kind, NoCommand)

\* history of the request: its janitor passes, its tool invocations (with the
\* exit status and whether an artifact was there to be found) and its return
Event(ev, ok, hit) == [ev |-> ev, ok |-> ok, hit |-> hit]
Logged(rec, event) == [rec EXCEPT !.log = Append(@, event)]

\* videoUtils.downloadVideo returns `path` to videoService.downloadVideo, which
\* starts getVideoDuration(filePath) (videoService.ts:131-134); `after` is the
\* directory content at that moment
Returned(rec, path, after) ==
    [Logged(rec, Event("return", TRUE, TRUE)) EXCEPT
        !.pc = "probe", !.filePath = path, !.returned = TRUE,
        !.retExisted = (path.dir \in dirs /\ path.name \in after[path.dir])]

\* what one janitor pass leaves of directory `dir` when the unlinks of
\* `failing` fail (cleanupPartFiles, videoUtils.ts:15-41)
Swept(dir, videoId, failing) ==
    IF dir \in dirs
      THEN [files EXCEPT ![dir] = @ \ (SweepTargets(@, videoId) \ failing)]
      ELSE files

\* videoService.ts:57-99  the request up to its first external call: the
\* identifier, the record lookup, the fast path, the video directory
SvcRequest(r, u) ==
    /\ req[r].pc = "new"
    /\ LET url1 == IF isTikTokUrl(u) /\ isLoginRedirect(u) THEN cleanTikTokUrl(u) ELSE u
           videoId == extractVideoId(url1)
           existingVideo == findOne(videoId)
           rec == [req[r] EXCEPT
                     !.arg = u, !.url = url1, !.videoId = videoId,
                     !.later = \E q \in Reqs \ {r} :
                                  /\ req[q].pc = "done"
                                  /\ req[q].result.status = "ok"
                                  /\ req[q].arg = u,
                     !.overlap = \E q \in Reqs \ {r} : req[q].pc \notin {"new", "done"},
                     !.countBefore = existingVideo.downloadCount]
       IN  IF videoId = <<>>
             THEN /\ req' = [req EXCEPT ![r] = Failed(rec, "Could not extract video ID from URL")]
                  /\ UNCHANGED dirs
             ELSE IF existingVideo # NoRecord
               THEN /\ UNCHANGED dirs
                    /\ IF existingVideo.duration > MaxDurationSeconds
                         THEN req' = [req EXCEPT ![r] =
                                  Failed(rec, "Video is longer than 30 minutes")]
                         ELSE req' = [req EXCEPT ![r] =
                                  [rec EXCEPT !.pc = "fastsave",
                                       !.existing = [existingVideo EXCEPT
                                                       !.downloadCount = @ + 1]]]
               ELSE /\ dirs' = dirs \cup {videoId}
                    /\ req' = [req EXCEPT ![r] =
                                  [rec EXCEPT !.pc = "info", !.videoDir = videoId]]
    /\ UNCHANGED <<files, db, runnerVars, janitorVars, auxVars>>

\* videoService.ts:86-92  the fast path saves the record it loaded
SvcFastSave(r) ==
    /\ req[r].pc = "fastsave"
    /\ db' = {v \in db : v.videoId # req[r].existing.videoId} \cup {req[r].existing}
    /\ req' = [req EXCEPT ![r] =
                  [@ EXCEPT !.pc = "done",
                            !.result = [status |-> "ok", error |-> "", command |-> NoCommand,
                                        video |-> req[r].existing]]]
    /\ UNCHANGED <<fsVars, runnerVars, janitorVars, auxVars>>

\* videoService.ts:102-131 with videoUtils.getVideoInfo (210-374): the
\* metadata dump ends; duration pre-check; carousel adjustment; the call of
\* videoUtils.downloadVideo up to its janitor pre-pass
SvcInfo(r, dumpOk, metaDuration, entry, entryIsVideo) ==
    /\ req[r].pc = "info"
    /\ entry \in EntryUrls(req[r].url)
    /\ LET rec == Logged(req[r], Event("dump", dumpOk, TRUE))
           url2 == IF entry # NoUrl THEN entry ELSE rec.url
           id2 == IF entry # NoUrl /\ extractVideoId(entry) # <<>>
                    THEN extractVideoId(entry) ELSE rec.videoId
       IN  req' = [req EXCEPT ![r] =
             IF ~dumpOk /\ ~isTikTokUrl(rec.url)
               THEN Failed(rec, "Failed to get video info")
             ELSE IF dumpOk /\ metaDuration > MaxDurationSeconds
               THEN Failed(rec, "Video is longer than 30 minutes")
             ELSE IF dumpOk /\ entry # NoUrl /\ ~entryIsVideo
               THEN Failed(rec, "Nenhum video encontrado no carrossel do Instagram.")
             ELSE IF dumpOk
               THEN [rec EXCEPT !.pc = "pre", !.url = url2, !.videoId = id2]
             ELSE [rec EXCEPT !.pc = "pre"]]
    /\ UNCHANGED <<fsVars, db, runnerVars, janitorVars, auxVars>>

\* videoUtils.ts:436-536, 570-627  downloadVideo from the janitor pre-pass to
\* the start of the first extraction-tool invocation
DlPre(r, failing) ==
    /\ req[r].pc = "pre"
    /\ LET initialVideoId == extractVideoId(req[r].url)
           url1 == IF isTikTokUrl(req[r].url) /\ isLoginRedirect(req[r].url)
                     THEN cleanTikTokUrl(req[r].url) ELSE req[r].url
       IN  /\ failing \subseteq SweepTargets(files[req[r].videoDir], initialVideoId)
           /\ IF initialVideoId # <<>>
                THEN /\ files' = Swept(req[r].videoDir, initialVideoId, failing)
                     /\ req' = [req EXCEPT ![r] =
                          [Logged(@, Event("pre", TRUE, TRUE)) EXCEPT
                              !.pc = "exec", !.url = url1,
                              !.strategy = IF ~isTikTokUrl(url1) THEN "standard"
                                           ELSE IF isShortTikTokUrl(url1) THEN "simple"
                                           ELSE "primary"]]
                ELSE /\ failing = {}
                     /\ UNCHANGED files
                     /\ req' = [req EXCEPT ![r] =
                          IF isTikTokUrl(url1)
                            THEN Failed(@, "Could not extract video ID from TikTok URL")
                            ELSE [@ EXCEPT !.pc = "exec", !.strategy = "standard"]]
    /\ UNCHANGED <<dirs, db, runnerVars, janitorVars, auxVars>>

\* the explicit output file of the reduced-flag invocations,
\* path.join(outputPath, `${videoId}.mp4`) (videoUtils.ts:386, 496)
ExplicitOutput(dir, videoId) == pathJoin(dir, videoId \o <<".mp4">>)

\* mutant: the fallback is entered although the primary download found its file
PrimarySucceededNever(run, dest, matching) == FALSE

\* videoUtils.ts:540-558  the primary TikTok download has produced a path: the
\* tool exited 0 and a Destination line was parsed or the directory holds a
\* file prefixed by the identifier
PrimarySucceeded(run, dest, matching) ==
    run.ok /\ (dest # NoPath \/ matching # {})

\* videoUtils.ts:508-517 (short link), 538-563 (long form), 625-643
\* (standard): the first extraction-tool download invocation ends
DlExec(r, run) ==
    /\ req[r].pc = "exec"
    /\ LET dir == req[r].videoDir
           url == req[r].url
           videoId == extractVideoId(url)
       IN
       \/ /\ req[r].strategy = "simple"
          /\ LET target == ExplicitOutput(dir, videoId)
                 after == FilesAfterRun(dir, target.name, run)
                 rec == Logged(req[r], Event("simple", run.ok, target.name \in after[dir]))
             IN  /\ files' = after
                 /\ req' = [req EXCEPT ![r] =
                       IF ~run.ok THEN Failed(rec, "Command failed")
                       ELSE IF target.name \in after[dir]
                         THEN Returned(rec, target, after)
                         ELSE Failed(rec, "yt-dlp download did not produce output file")]
       \/ /\ req[r].strategy = "primary"
          /\ LET after == FilesAfterRun(dir, TemplateFile(url, run), run)
                 dest == DestinationOf(dir, url, run)
                 matching == {f \in after[dir] : startsWith(f, videoId)}
                 rec == Logged(req[r],
                           Event("primary", run.ok, dest # NoPath \/ matching # {}))
             IN  /\ files' = after
                 /\ IF PrimarySucceeded(run, dest, matching)
                      THEN IF dest # NoPath
                             THEN req' = [req EXCEPT ![r] = Returned(rec, dest, after)]
                             ELSE \* lines 550-555: matchingFiles[0] of the scan
                                  \E f \in matching :
                                    req' = [req EXCEPT ![r] =
                                              [Returned(rec, pathJoin(dir, f), after)
                                                  EXCEPT !.scanned = TRUE]]
                      ELSE req' = [req EXCEPT ![r] =
                                     [rec EXCEPT !.pc = "direct", !.primaryFailed = TRUE]]
       \/ /\ req[r].strategy = "standard"
          /\ LET after == FilesAfterRun(dir, TemplateFile(url, run), run)
                 rec == Logged(req[r], Event("standard", run.ok, run.wrote))
             IN  /\ files' = after
                 /\ req' = [req EXCEPT ![r] =
                       IF ~run.ok
                         THEN \* lines 639-642: enhancedError.command = fullCommand
                              FailedWith(rec, "Failed to download video",
                                         [kind |-> "standard", url |-> url])
                       ELSE [rec EXCEPT !.pc = "post",
                                        !.out = DestinationOf(dir, url, run)]]
    /\ UNCHANGED <<dirs, db, runnerVars, janitorVars, auxVars>>

\* videoUtils.ts:645-676  standard download after the tool: janitor post-pass,
\* Destination line verified on disk, else directory scan
DlPost(r, failing) ==
    /\ req[r].pc = "post"
    /\ LET dir == req[r].videoDir
           initialVideoId == extractVideoId(req[r].url)
           after == Swept(dir, initialVideoId, failing)
           rec == Logged(req[r], Event("post", TRUE, TRUE))
           matchingFiles == {f \in after[dir] :
                                startsWith(f, initialVideoId) /\ ~endsWith(f, ".part")}
       IN  /\ failing \subseteq SweepTargets(files[dir], initialVideoId)
           /\ files' = after
           /\ IF req[r].out # NoPath /\ req[r].out.name \in after[dir]
                THEN req' = [req EXCEPT ![r] = Returned(rec, req[r].out, after)]
                ELSE IF matchingFiles = {}
                  THEN req' = [req EXCEPT ![r] = Failed(rec, "Downloaded file not found")]
                  ELSE \E f \in matchingFiles :
                         req' = [req EXCEPT ![r] =
                                   [Returned(rec, pathJoin(dir, f), after)
                                       EXCEPT !.scanned = TRUE]]
    /\ UNCHANGED <<dirs, db, runnerVars, janitorVars, auxVars>>

\* videoUtils.ts:377-428, 562  directTikTokDownload ends
DlDirect(r, run) ==
    /\ req[r].pc = "direct"
    /\ LET dir == req[r].videoDir
           target == ExplicitOutput(dir, extractVideoId(req[r].url))
           after == FilesAfterRun(dir, target.name, run)
           rec == Logged(req[r], Event("direct", run.ok, target.name \in after[dir]))
       IN  /\ files' = after
           /\ req' = [req EXCEPT ![r] =
                 IF ~run.ok THEN Failed(rec, "Command failed")
                 ELSE Returned(rec, target, after)]
    /\ UNCHANGED <<dirs, db, runnerVars, janitorVars, auxVars>>

\* videoService.ts:134-143 with videoUtils.getVideoDuration (724-733): the
\* duration probe of the returned path ends
SvcProbe(r, probeOk, seconds) ==
    /\ req[r].pc = "probe"
    /\ req' = [req EXCEPT ![r] =
          IF ~probeOk \/ ~existsSync(req[r].filePath)
            THEN Failed(@, "Command failed")
          ELSE IF seconds > MaxDurationSeconds
            THEN [@ EXCEPT !.pc = "unlink", !.duration = seconds, !.measured = TRUE]
          ELSE [@ EXCEPT !.pc = "save", !.duration = seconds, !.measured = TRUE]]
    /\ UNCHANGED <<fsVars, db, runnerVars, janitorVars, auxVars>>

\* videoService.ts:138-142  the over-long artifact is deleted and the request
\* fails
SvcUnlink(r, unlinkOk) ==
    /\ req[r].pc = "unlink"
    /\ IF ~existsSync(req[r].filePath)
         THEN \* line 139: nothing to delete
              /\ UNCHANGED files
              /\ req' = [req EXCEPT ![r] = Failed(@, "Video is longer than 30 minutes")]
         ELSE IF unlinkOk
           THEN /\ files' = [files EXCEPT ![req[r].filePath.dir] = @ \ {req[r].filePath.name}]
                /\ req' = [req EXCEPT ![r] = Failed(@, "Video is longer than 30 minutes")]
           ELSE /\ UNCHANGED files
                /\ req' = [req EXCEPT ![r] = Failed(@, "unlink failed")]
    /\ UNCHANGED <<dirs, db, runnerVars, janitorVars, auxVars>>

\* videoService.ts:155-174  the new record is inserted; column videoId is
\* unique (models/Video.ts:22-24)
SvcSave(r) ==
    /\ req[r].pc = "save"
    /\ LET newVideo == [videoId |-> req[r].videoId, url |-> req[r].url,
                        filePath |-> req[r].filePath, duration |-> req[r].duration,
                        downloadCount |-> 1, accessCount |-> 0]
       IN  IF findOne(req[r].videoId) # NoRecord
             THEN /\ UNCHANGED db
                  /\ req' = [req EXCEPT ![r] =
                        Failed(@, "duplicate key value violates unique constraint")]
             ELSE /\ db' = db \cup {newVideo}
                  /\ req' = [req EXCEPT ![r] =
                        [@ EXCEPT !.pc = "done",
                                  !.result = [status |-> "ok", error |-> "", command |-> NoCommand,
                                              video |-> newVideo]]]
    /\ UNCHANGED <<fsVars, runnerVars, janitorVars, auxVars>>

(***************************************************************************)
(* Texts on the character level                                            *)
(* Where the length and the alphabet of a string matter (the identifier    *)
(* patterns), a string is the sequence of its characters.                  *)
(***************************************************************************)
Digit == {"0", "1", "2", "3", "4", "5", "6", "7", "8", "9"}
Lower == {"a", "b", "c", "d", "e", "f", "g", "h", "i", "j", "k", "l", "m",
          "n", "o", "p", "q", "r", "s", "t", "u", "v", "w", "x", "y", "z"}
Upper == {"A", "B", "C", "D", "E", "F", "G", "H", "I", "J", "K", "L", "M",
          "N", "O", "P", "Q", "R", "S", "T", "U", "V", "W", "X", "Y", "Z"}
\* the character class [a-zA-Z0-9_-]
IdChar == Digit \cup Lower \cup Upper \cup {"_", "-"}
HexDigits == <<"0", "1", "2", "3", "4", "5", "6", "7", "8", "9",
               "a", "b", "c", "d", "e", "f">>

Text ==
    [ www |-> <<"w", "w", "w">>,
      com |-> <<"c", "o", "m">>,
      be |-> <<"b", "e">>,
      youtube |-> <<"y", "o", "u", "t", "u", "b", "e">>,
      youtu |-> <<"y", "o", "u", "t", "u">>,
      vimeo |-> <<"v", "i", "m", "e", "o">>,
      x |-> <<"x">>,
      twitter |-> <<"t", "w", "i", "t", "t", "e", "r">>,
      tiktok |-> <<"t", "i", "k", "t", "o", "k">>,
      vm |-> <<"v", "m">>,
      instagram |-> <<"i", "n", "s", "t", "a", "g", "r", "a", "m">>,
      example |-> <<"e", "x", "a", "m", "p", "l", "e">>,
      watch |-> <<"w", "a", "t", "c", "h">>,
      shorts |-> <<"s", "h", "o", "r", "t", "s">>,
      status |-> <<"s", "t", "a", "t", "u", "s">>,
      user |-> <<"u", "s", "e", "r">>,
      atUser |-> <<"@", "u", "s", "e", "r">>,
      video |-> <<"v", "i", "d", "e", "o">>,
      embed |-> <<"e", "m", "b", "e", "d">>,
      v2 |-> <<"v", "2">>,
      p |-> <<"p">>,
      reel |-> <<"r", "e", "e", "l">>,
      share |-> <<"s", "h", "a", "r", "e">>,
      login |-> <<"l", "o", "g", "i", "n">>,
      feed |-> <<"f", "e", "e", "d">>,
      vmTikTokCom |-> <<"v", "m", ".", "t", "i", "k", "t", "o", "k", ".", "c", "o", "m">>,
      dQw4w9WgXcQ |-> <<"d", "Q", "w", "4", "w", "9", "W", "g", "X", "c", "Q">>,
      digits19 |-> <<"7", "1", "2", "3", "4", "5", "6", "7", "8", "9", "0", "1", "2", "3", "4", "5", "6", "7", "8">>,
      ZMabcdef |-> <<"Z", "M", "a", "b", "c", "d", "e", "f">>,
      XyZ123 |-> <<"X", "y", "Z", "1", "2", "3">>,
      abc |-> <<"a", "b", "c">>,
      digits5 |-> <<"7", "6", "5", "4", "3">>,
      tiktokPrefix |-> <<"t", "i", "k", "t", "o", "k", "_">>,
      instagramPrefix |-> <<"i", "n", "s", "t", "a", "g", "r", "a", "m", "_">>,
      urlPrefix |-> <<"u", "r", "l", "_">> ]

\* what extractVideoId returns when it returns null (no text: its one element
\* is not a character)
Null == <<"null">>

(***************************************************************************)
(* URLs on the character level: the scheme ("" when the string does not    *)
(* parse as a URL), the labels of the host name, the non-empty segments of *)
(* the path, whether the path ends with a slash, and the query parameters  *)
(* in order. The value of a parameter is a text or, percent-encoded,       *)
(* another URL (`inner`).                                                  *)
(***************************************************************************)
EmptyUrl == [scheme |-> "", host |-> <<>>, path |-> <<>>, slash |-> FALSE, query |-> <<>>]
HttpsUrl(host, path, slash, query) ==
    [scheme |-> "https", host |-> host, path |-> path, slash |-> slash, query |-> query]
Param(key, text) == [key |-> key, text |-> text, inner |-> EmptyUrl]
RedirectParam(inner) == [key |-> "redirect_url", text |-> <<>>, inner |-> inner]

Host ==
    [ YouTube |-> <<Text.www, Text.youtube, Text.com>>,
      YoutuBe |-> <<Text.youtu, Text.be>>,
      Vimeo |-> <<Text.vimeo, Text.com>>,
      X |-> <<Text.x, Text.com>>,
      TikTok |-> <<Text.www, Text.tiktok, Text.com>>,
      VmTikTok |-> <<Text.vm, Text.tiktok, Text.com>>,
      Instagram |-> <<Text.www, Text.instagram, Text.com>>,
      Example |-> <<Text.www, Text.example, Text.com>> ]

\* videoUtils.ts:102  url.split('&')[0]: the string up to the first '&', which
\* in a URL stands between the first and the second query parameter
splitAmp(url) == [url EXCEPT !.query = IF Len(@) > 1 THEN <<@[1]>> ELSE @]

\* videoUtils.ts:103  new URL(cleanUrl) does not throw
parses(url) == url.scheme # ""

\* urlObj.hostname.includes('a.b') for whole labels
hostIncludes(url, labels) == nameIncludes(url.host, labels)

\* urlObj.searchParams.get(key): the text of the first parameter of that name,
\* null when there is none
searchParamsGet(url, key) ==
    LET at == {i \in 1..Len(url.query) : url.query[i].key = key}
    IN  IF at = {} THEN Null
        ELSE url.query[CHOOSE i \in at : \A j \in at : i <= j].text

\* the first parameter of that name, as a record
searchParam(url, key) ==
    LET at == {i \in 1..Len(url.query) : url.query[i].key = key}
    IN  IF at = {} THEN Param("", <<>>)
        ELSE url.query[CHOOSE i \in at : \A j \in at : i <= j]

RECURSIVE joinSegments(_)
joinSegments(path) ==
    IF path = <<>> THEN <<>>
    ELSE IF Len(path) = 1 THEN path[1]
    ELSE path[1] \o <<"/">> \o joinSegments(Tail(path))

\* videoUtils.ts:109  urlObj.pathname.substring(1).split('?')[0]
pathnameTail(url) ==
    joinSegments(url.path) \o (IF url.slash /\ url.path # <<>> THEN <<"/">> ELSE <<>>)

\* the longest prefix of `s` made of characters of `Class`: what a group
\* ([...]+) or (\d+) captures at the start of `s`
Capture(s, Class) ==
    LET ks == {k \in 0..Len(s) : \A i \in 1..k : s[i] \in Class}
    IN  SubSeq(s, 1, CHOOSE k \in ks : \A j \in ks : j <= k)

\* pathname.match(/\/(name1|name2)\/([Class]+)/): the capture of the leftmost
\* match, <<>> when there is no match
SegCapture(path, names, Class) ==
    LET at == {i \in 1..(Len(path) - 1) :
                  path[i] \in names /\ Capture(path[i + 1], Class) # <<>>}
    IN  IF at = {} THEN <<>>
        ELSE Capture(path[(CHOOSE i \in at : \A j \in at : i <= j) + 1], Class)

\* videoUtils.ts:169  pathname.match(/\/@[^\/]+\/video\/(\d+)/)
videoMatch(path) ==
    LET at == {i \in 1..(Len(path) - 2) :
                  /\ Len(path[i]) >= 2 /\ path[i][1] = "@"
                  /\ path[i + 1] = Text.video
                  /\ Capture(path[i + 2], Digit) # <<>>}
    IN  IF at = {} THEN <<>>
        ELSE Capture(path[(CHOOSE i \in at : \A j \in at : i <= j) + 2], Digit)

\* videoUtils.ts:175  pathname.match(/\/embed\/v2\/(\d+)/)
embedMatch(path) ==
    LET at == {i \in 1..(Len(path) - 2) :
                  /\ path[i] = Text.embed /\ path[i + 1] = Text.v2
                  /\ Capture(path[i + 2], Digit) # <<>>}
    IN  IF at = {} THEN <<>>
        ELSE Capture(path[(CHOOSE i \in at : \A j \in at : i <= j) + 2], Digit)

\* videoUtils.ts:113  urlObj.pathname.includes('/shorts/')
pathnameIncludesShorts(url) ==
    \E i \in 1..Len(url.path) : url.path[i] = Text.shorts /\ (i < Len(url.path) \/ url.slash)

\* videoUtils.ts:155  urlObj.pathname.includes('/login')
pathnameIncludesLogin(url) ==
    \E i \in 1..Len(url.path) : startsWith(url.path[i], Text.login)

\* mutant: the short code is taken from the host name although the path has
\* segments
shortCodeOfHost(url) == url.host[1]

\* videoUtils.ts:142-151  the short code of a vm.tiktok.com URL: the last path
\* segment, the first label of the host name when the path is empty
shortCode(url) ==
    IF Len(url.path) > 0 THEN url.path[Len(url.path)] ELSE url.host[1]

\* videoUtils.ts:201  md5(url).digest('hex').substring(0, 12): twelve
\* hexadecimal digits that depend on the URL alone (which twelve is
\* immaterial here)
Md5Hex12(url) ==
    [i \in 1..12 |->
        HexDigits[((7 * Len(url.path) + 3 * Len(url.host) + Len(url.query) + 5 * i) % 16) + 1]]

\* videoUtils.ts:99-207  extractVideoId on the character level
RECURSIVE extractVideoIdText(_)
extractVideoIdText(url) ==
    LET cleanUrl == splitAmp(url)
        path == cleanUrl.path
        redirect == searchParam(cleanUrl, "redirect_url")
        isTikTokHost == hostIncludes(cleanUrl, <<Text.tiktok, Text.com>>)
    IN  IF ~parses(cleanUrl) THEN Null
        ELSE IF hostIncludes(cleanUrl, <<Text.youtu, Text.be>>) THEN pathnameTail(cleanUrl)
        ELSE IF hostIncludes(cleanUrl, <<Text.youtube, Text.com>>)
          THEN IF pathnameIncludesShorts(cleanUrl) /\ SegCapture(path, {Text.shorts}, IdChar) # <<>>
                 THEN SegCapture(path, {Text.shorts}, IdChar)
                 ELSE searchParamsGet(cleanUrl, "v")
        ELSE IF hostIncludes(cleanUrl, <<Text.vimeo, Text.com>>)
          THEN IF path = <<>> THEN <<>> ELSE path[1]
        ELSE IF /\ (hostIncludes(cleanUrl, <<Text.twitter, Text.com>>)
                      \/ hostIncludes(cleanUrl, <<Text.x, Text.com>>))
                /\ SegCapture(path, {Text.status}, Digit) # <<>>
          THEN SegCapture(path, {Text.status}, Digit)
        ELSE IF hostIncludes(cleanUrl, <<Text.vm, Text.tiktok, Text.com>>)
          THEN Text.tiktokPrefix \o shortCode(cleanUrl)
        ELSE IF /\ isTikTokHost /\ pathnameIncludesLogin(cleanUrl)
                /\ (redirect.text # <<>> \/ redirect.inner # EmptyUrl)
          THEN extractVideoIdText(redirect.inner)
        ELSE IF isTikTokHost /\ videoMatch(path) # <<>>
          THEN Text.tiktokPrefix \o videoMatch(path)
        ELSE IF isTikTokHost /\ embedMatch(path) # <<>>
          THEN Text.tiktokPrefix \o embedMatch(path)
        ELSE IF /\ hostIncludes(cleanUrl, <<Text.instagram, Text.com>>)
                /\ SegCapture(path, {Text.p, Text.reel, Text.share}, IdChar) # <<>>
          THEN Text.instagramPrefix \o SegCapture(path, {Text.p, Text.reel, Text.share}, IdChar)
        ELSE IF SegCapture(url.path, {Text.vmTikTokCom}, IdChar) # <<>>
          THEN Text.tiktokPrefix \o SegCapture(url.path, {Text.vmTikTokCom}, IdChar)
        ELSE Text.urlPrefix \o Md5Hex12(url)

\* RegExp.test for /^[Class]{lo,hi}$/
matchesClass(s, Class, lo, hi) ==
    Len(s) >= lo /\ Len(s) <= hi /\ \A i \in 1..Len(s) : s[i] \in Class

\* videoUtils.ts:86-96  isValidVideoId
isValidVideoId(videoId) ==
    \/ matchesClass(videoId, IdChar, 5, 20)
    \/ matchesClass(videoId, Digit, 15, 25)
    \/ \E prefix \in {Text.tiktokPrefix, Text.instagramPrefix, Text.urlPrefix} :
          /\ startsWith(videoId, prefix)
          /\ matchesClass(SubSeq(videoId, Len(prefix) + 1, Len(videoId)), IdChar, 5, 30)

\* validationUtils.isValidVideoId with VIDEO_ID_PATTERNS of config/constants.ts,
\* the custom validator of validateVideoId (routes/videoRoutes.ts:9-13)
validateVideoId(videoId) ==
    \/ matchesClass(videoId, IdChar, 5, 20)
    \/ matchesClass(videoId, Digit, 15, 25)

ResolverIdle ==
    /\ rpc = "new"
    /\ rUrl = EmptyUrl
    /\ rId = Null

\* videoService.ts:71  videoUtils.extractVideoId(url)
ResolveUrl ==
    /\ rpc = "new"
    /\ rId' = extractVideoIdText(rUrl)
    /\ rpc' = "resolved"
    /\ UNCHANGED <<rUrl, exceptResolver>>

\* videoService.ts:73-75, 155-174  `if (!videoId) throw`; otherwise the
\* download runs and, when it succeeds, the record with this videoId is
\* returned to the client
ServiceDownload(succeeds) ==
    /\ rpc = "resolved"
    /\ rpc' = IF rId = Null \/ rId = <<>> \/ ~succeeds THEN "failed" ELSE "downloaded"
    /\ UNCHANGED <<rUrl, rId, exceptResolver>>

\* routes/videoRoutes.ts:9-13, 46-85  a follow-up request (cut, stream, mp3,
\* file download) with the returned videoId as its path parameter
FollowUpRequest ==
    /\ rpc = "downloaded"
    /\ rpc' = IF validateVideoId(rId) THEN "accepted" ELSE "rejected"
    /\ UNCHANGED <<rUrl, rId, exceptResolver>>

(***************************************************************************)
(* Cookie/Auth Strategy Selector                                           *)
(***************************************************************************)
\* cookie file paths are token sequences: cookies.txt is <<"cookies", ".txt">>
CookiesTxt == <<"cookies", ".txt">>

\* cookieConverter.ts:76-78  <dir>/<basename without extension>_netscape.txt
derivedPath(cookiesFile) ==
    (IF Len(cookiesFile) > 1 THEN SubSeq(cookiesFile, 1, Len(cookiesFile) - 1) ELSE cookiesFile)
        \o <<"_netscape", ".txt">>

CookiePaths == {CookiesTxt, derivedPath(CookiesTxt), derivedPath(derivedPath(CookiesTxt))}

\* unnamed/part_005:54-56, 79-81  the process-wide cookie configuration; ''
\* when the environment variable is not set
EnvConfigs ==
    [cookiesBrowser : {"", "chrome"}, cookiesProfile : {"", "default"},
     cookiesFile : {<<>>, CookiesTxt}]

\* mutant: the configured cookie file is used without looking for it on disk
useCookiesFileUnchecked(e, onDisk) == e.cookiesFile # <<>>

\* videoUtils.ts:243, 306, 401, 485, 590
\* env.cookiesFile && fs2.existsSync(env.cookiesFile)
useCookiesFile(e, onDisk) == e.cookiesFile # <<>> /\ e.cookiesFile \in onDisk

\* videoUtils.ts:231-248, 294-308, 389-406, 473-490, 578-592  cookieArgs, the
\* same code in getVideoInfo (twice), directTikTokDownload and downloadVideo
\* (twice)
cookieArgs(e, onDisk) ==
    IF e.cookiesBrowser # ""
      THEN <<[opt |-> "--cookies-from-browser", val |-> <<e.cookiesBrowser>>]>>
           \o (IF e.cookiesProfile # ""
                 THEN <<[opt |-> "--cookies-from-browser",
                         val |-> <<e.cookiesBrowser, ":", e.cookiesProfile>>]>>
                 ELSE <<>>)
      ELSE IF useCookiesFile(e, onDisk)
        THEN <<[opt |-> "--cookies", val |-> e.cookiesFile]>>
        ELSE <<>>

\* the extraction-tool commands of a request: the two metadata commands of
\* getVideoInfo, the short-link, primary and standard commands of
\* downloadVideo, and the command of directTikTokDownload
CommandKinds == {"info-tiktok", "info", "simple", "primary", "standard", "direct"}

\* videoUtils.ts:250-261, 313-340, 408-416, 498-505, 524-536, 596-621
\* a yt-dlp command line is built with the cookie arguments joined in
BuildCommand(kind) ==
    /\ ~\E c \in built : c.kind = kind
    /\ built' = built \cup {[kind |-> kind, cookieArgs |-> cookieArgs(env, cookieOnDisk)]}
    /\ UNCHANGED <<env, cookieOnDisk, cookieText, ensureLog, exceptCookies>>

(***************************************************************************)
(* Cookie materialization (cookieConverter.ts). The content of a file is   *)
(* the sequence of its lines, a line the sequence of its tab-separated     *)
(* fields.                                                                 *)
(***************************************************************************)
NetscapeHeader == "# Netscape HTTP Cookie File"

\* the value of a destructured array element that does not exist
Undefined == "undefined"

CookieLine ==
    [ fields7 |-> <<".tiktok.com", "TRUE", "/", "TRUE", "0", "sid", "abc">>,
      fields8 |-> <<".tiktok.com", "TRUE", "/", "TRUE", "0", "sid", "abc", "x">>,
      fields6 |-> <<".tiktok.com", "/", "TRUE", "0", "sid", "abc">>,
      fields6Flag |-> <<".tiktok.com", "TRUE", "/", "FALSE", "0", "sid">>,
      fields3 |-> <<".tiktok.com", "sid", "abc">>,
      blank |-> <<" ">>,
      header |-> <<NetscapeHeader>> ]
CookieLines == {CookieLine.fields7, CookieLine.fields8, CookieLine.fields6, CookieLine.fields6Flag, CookieLine.fields3, CookieLine.blank, CookieLine.header}

\* line.trim() !== ''
notBlank(line) == ~(Len(line) = 1 /\ line[1] \in {"", " "})

\* parts[i] of an array destructuring: undefined beyond the end
element(parts, i) == IF i <= Len(parts) THEN parts[i] ELSE Undefined

\* cookieConverter.ts:22-35  what one line adds to netscapeContent
convertLine(parts) ==
    IF Len(parts) >= 7 THEN <<parts>>
    ELSE IF Len(parts) = 6
      THEN LET domain == element(parts, 1)
               includeSubdomains == element(parts, 2)
               path == element(parts, 3)
               secureFlag == element(parts, 4)
               expiry == element(parts, 5)
               name == element(parts, 6)
               value == element(parts, 7)
           IN  IF domain # "" /\ path # "" /\ name # "" /\ value # Undefined
                 THEN << <<domain,
                           IF includeSubdomains = "TRUE" THEN "TRUE" ELSE "FALSE",
                           path,
                           IF secureFlag = "TRUE" THEN "TRUE" ELSE "FALSE",
                           IF expiry # "" THEN expiry ELSE "0",
                           name, value>> >>
                 ELSE <<>>
    ELSE <<>>

RECURSIVE convertLines(_)
convertLines(lines) ==
    IF lines = <<>> THEN <<>>
    ELSE (IF notBlank(Head(lines)) THEN convertLine(Head(lines)) ELSE <<>>)
            \o convertLines(Tail(lines))

\* cookieConverter.ts:13-36  netscapeContent for the content of inputFile
netscapeContent(lines) == <<CookieLine.header>> \o convertLines(lines)

\* cookieConverter.ts:51-58  isNetscapeFormat: content.includes(header); a
\* file that cannot be read is not in the format
isNetscapeFormat(filePath) ==
    /\ filePath \in cookieOnDisk
    /\ \E i \in 1..Len(cookieText[filePath]) :
          \E j \in 1..Len(cookieText[filePath][i]) :
              cookieText[filePath][i][j] = NetscapeHeader

\* one entry of the history of ensureNetscapeCookies calls
EnsureEntry(cookiesFile, returned, converted, wrote, input) ==
    [path |-> cookiesFile, returned |-> returned, converted |-> converted,
     wrote |-> wrote, input |-> input]

\* cookieConverter.ts:63-89 with convertCookiesToNetscape (10-46)
\* ensureNetscapeCookies(cookiesFile); writeOk: fs.writeFileSync succeeds
EnsureNetscapeCookies(cookiesFile, writeOk) ==
    /\ Len(ensureLog) < MaxEnsureCalls
    /\ IF cookiesFile \notin cookieOnDisk
         THEN \* lines 65-68
              /\ ensureLog' = Append(ensureLog,
                    EnsureEntry(cookiesFile, <<>>, FALSE, FALSE, <<>>))
              /\ UNCHANGED <<cookieOnDisk, cookieText>>
         ELSE IF isNetscapeFormat(cookiesFile)
           THEN \* lines 71-73
                /\ ensureLog' = Append(ensureLog,
                      EnsureEntry(cookiesFile, cookiesFile, FALSE, FALSE, cookieText[cookiesFile]))
                /\ UNCHANGED <<cookieOnDisk, cookieText>>
           ELSE LET outputFile == derivedPath(cookiesFile)
                IN  IF writeOk /\ outputFile \in CookiePaths
                      THEN /\ cookieOnDisk' = cookieOnDisk \cup {outputFile}
                           /\ cookieText' = [cookieText EXCEPT ![outputFile] =
                                                netscapeContent(cookieText[cookiesFile])]
                           /\ ensureLog' = Append(ensureLog,
                                 EnsureEntry(cookiesFile, outputFile, TRUE, TRUE,
                                             cookieText[cookiesFile]))
                      ELSE \* lines 42-44, 84: the write failed
                           /\ ensureLog' = Append(ensureLog,
                                 EnsureEntry(cookiesFile, <<>>, TRUE, FALSE,
                                             cookieText[cookiesFile]))
                           /\ UNCHANGED <<cookieOnDisk, cookieText>>
    /\ UNCHANGED <<env, built, exceptCookies>>

CookiesIdle ==
    /\ env = [cookiesBrowser |-> "", cookiesProfile |-> "", cookiesFile |-> <<>>]
    /\ cookieOnDisk = {}
    /\ cookieText = [p \in CookiePaths |-> <<>>]
    /\ built = {}
    /\ ensureLog = <<>>

(***************************************************************************)
(* Artifact Post-Processor: cutVideo runs ffmpeg through execCommand,      *)
(* convertToMp3 runs it through spawn                                      *)
(***************************************************************************)
\* constants.ts:6  VIDEO_FORMATS
VideoFormats == {"mp4", "webm", "mkv"}

\* videoUtils.ts:701-711  the codec arguments of the ffmpeg command line
CutCommand(format) ==
    IF format = "webm"
      THEN "ffmpeg -c:v libvpx-vp9 -c:a libopus"
      ELSE "ffmpeg -c:v libx264 -c:a aac -strict experimental"

\* times the routes accept (constants.ts:25 TIME_FORMAT), character by character
Time ==
    [ hms |-> <<"0", "0", ":", "0", "1", ":", "3", "0">>,
      ms  |-> <<"2", ":", "4", "5">> ]

Times == {Time.hms, Time.ms}

\* an optional argument that was not passed
NoTime == <<"undefined">>

\* the truthiness test of `startTime && endTime`, `if (startTime)`
given(time) == time # NoTime /\ time # <<>>

\* videoUtils.ts:694-695,786-787  time.replace(/:/g, '-')
replaceColons(time) ==
    [i \in 1..Len(time) |-> IF time[i] = ":" THEN "-" ELSE time[i]]

\* videoUtils.ts:693,781  path.basename(inputPath, path.extname(inputPath))
inputFileName(inputPath) == SubSeq(inputPath.name, 1, Len(inputPath.name) - 1)

\* videoUtils.ts:696-697  the outputFilePath of cutVideo
CutOutputFilePath(inputPath, outputPath, startTime, endTime, format) ==
    pathJoin(outputPath,
             inputFileName(inputPath) \o <<"_">> \o replaceColons(startTime)
                 \o <<"_">> \o replaceColons(endTime) \o <<".", format>>)

\* videoUtils.ts:782-791  the outputFilePath of convertToMp3
Mp3OutputFilePath(inputPath, outputDir, startTime, endTime) ==
    pathJoin(outputDir,
             IF given(startTime) /\ given(endTime)
               THEN inputFileName(inputPath) \o <<"_">> \o replaceColons(startTime)
                        \o <<"_">> \o replaceColons(endTime) \o <<".", "mp3">>
               ELSE inputFileName(inputPath) \o <<".", "mp3">>)

\* videoUtils.ts:795-811  ffmpegArgs
Mp3Args(inputPath, startTime, endTime, outputFilePath) ==
    [ i  |-> inputPath,
      ss |-> IF given(startTime) THEN startTime ELSE NoTime,
      to |-> IF given(endTime) THEN endTime ELSE NoTime,
      audio |-> <<"-vn", "-ab", "128k", "-ar", "44100", "-f", "mp3">>,
      out |-> outputFilePath ]

NoCall ==
    [input |-> NoPath, dir |-> <<>>, start |-> NoTime, end |-> NoTime,
     format |-> "", out |-> NoPath]

\* stored originals and output directories of the calls
TranscodeInputs ==
    { pathJoin(<<"7">>, <<"7", ".mp4">>),
      pathJoin(<<"tiktok_", "Z">>, <<"tiktok_", "Z", ".webm">>) }

TranscodeIdle ==
    /\ tpc = "idle"
    /\ spawns = <<>>
    /\ tcall = NoCall

\* videoUtils.ts:684-714  cutVideo up to `await execCommand(command)`, which
\* is called without a `retries` argument
CutVideo(inputPath, outputPath, startTime, endTime, format) ==
    /\ tpc = "idle"
    /\ xpc = "idle"
    /\ tpc' = "cut"
    /\ tcall' = [input |-> inputPath, dir |-> outputPath, start |-> startTime,
                 end |-> endTime, format |-> format,
                 out |-> CutOutputFilePath(inputPath, outputPath, startTime,
                                           endTime, format)]
    /\ command' = CutCommand(format)
    /\ retries' = DefaultRetries
    /\ attemptCommand(1)
    /\ UNCHANGED <<exits, settled, spawns, fsVars, janitorVars, pipeVars,
                   resolverVars, cookieVars, serviceVars>>

\* videoUtils.ts:714-721  the promise of execCommand has settled: cutVideo
\* returns the output path or rethrows
CutReturn ==
    /\ tpc = "cut"
    /\ xpc \in {"resolved", "rejected"}
    /\ tpc' = IF xpc = "resolved" THEN "cut-done" ELSE "cut-failed"
    /\ UNCHANGED <<spawns, tcall, coreVars, resolverVars, cookieVars, serviceVars>>

\* videoUtils.ts:773-819  convertToMp3 up to spawn('ffmpeg', ffmpegArgs)
ConvertToMp3(inputPath, outputDir, startTime, endTime) ==
    /\ tpc = "idle"
    /\ tpc' = "mp3"
    /\ tcall' = [input |-> inputPath, dir |-> outputDir, start |-> startTime,
                 end |-> endTime, format |-> "mp3",
                 out |-> Mp3OutputFilePath(inputPath, outputDir, startTime, endTime)]
    /\ spawns' = Append(spawns,
                        [tool |-> "ffmpeg",
                         args |-> Mp3Args(inputPath, startTime, endTime, tcall'.out)])
    /\ UNCHANGED <<coreVars, resolverVars, cookieVars, serviceVars>>

\* videoUtils.ts:821-845  stderr data is only logged; 'close' with code 0
\* resolves with outputFilePath, any other code rejects; 'error' rejects
Mp3Close(code, stderr) ==
    /\ tpc = "mp3"
    /\ tpc' = IF code = 0 THEN "mp3-done" ELSE "mp3-failed"
    /\ UNCHANGED <<spawns, tcall, coreVars, resolverVars, cookieVars, serviceVars>>

(***************************************************************************)
(* Numbers read from text                                                  *)
(***************************************************************************)
\* the value of a decimal digit
digitValue(c) == (CHOOSE i \in 1..10 : HexDigits[i] = c) - 1

RECURSIVE decimal(_)
decimal(digits) ==
    IF digits = <<>> THEN 0
    ELSE 10 * decimal(SubSeq(digits, 1, Len(digits) - 1)) + digitValue(digits[Len(digits)])

\* parseInt(text, 10) of a text without blanks and sign: the value of the
\* longest prefix of digits, NaN when the text does not start with a digit
parseInt10(text) ==
    LET k == CHOOSE i \in 0..Len(text) :
                /\ \A j \in 1..i : text[j] \in Digit
                /\ i < Len(text) => text[i + 1] \notin Digit
    IN  IF k = 0 THEN [nan |-> TRUE, val |-> 0]
        ELSE [nan |-> FALSE, val |-> decimal(SubSeq(text, 1, k))]

(***************************************************************************)
(* Configuration: env.maxExtractDuration                                   *)
(***************************************************************************)
\* values of process.env.MAX_EXTRACT_DURATION: unset, "60", "3600"
MaxExtractDurationEnv == {<<>>, <<"6", "0">>, <<"3", "6", "0", "0">>}

\* env.ts:51  parseInt(process.env.MAX_EXTRACT_DURATION || '1800', 10)
envMaxExtractDuration(value) ==
    parseInt10(IF value = <<>> THEN <<"1", "8", "0", "0">> ELSE value).val

(***************************************************************************)
(* getVideoPath: the record is loaded, its accessCount raised, and saved   *)
(***************************************************************************)
NewPathCall == [pc |-> "new", video |-> NoRecord]

\* videoService.ts:15-35  findVideoWithFallback: the exact identifier, then
\* the identifier behind each prefix
findVideoWithFallback(videoId) ==
    LET prefixed == <<findOne(videoId), findOne(<<"instagram_">> \o videoId),
                      findOne(<<"tiktok_">> \o videoId), findOne(<<"url_">> \o videoId)>>
    IN  IF \E i \in 1..4 : prefixed[i] # NoRecord
          THEN prefixed[CHOOSE i \in 1..4 :
                          /\ prefixed[i] # NoRecord
                          /\ \A j \in 1..(i - 1) : prefixed[j] = NoRecord]
          ELSE NoRecord

\* videoService.ts:236-247  getVideoPath up to `await videoRepository.save`
GetVideoPath(c, videoId) ==
    /\ gvp[c].pc = "new"
    /\ LET video == findVideoWithFallback(videoId)
       IN  gvp' = [gvp EXCEPT ![c] =
                     IF video = NoRecord
                       THEN [pc |-> "failed", video |-> NoRecord]
                       ELSE [pc |-> "save",
                             video |-> [video EXCEPT !.accessCount = @ + 1]]]
    /\ UNCHANGED <<coreVars, resolverVars, cookieVars, transcodeVars,
                   maxExtractDuration, stream>>

\* videoService.ts:248-250  the loaded record is saved and its path returned
GetVideoPathSave(c) ==
    /\ gvp[c].pc = "save"
    /\ db' = {v \in db : v.videoId # gvp[c].video.videoId} \cup {gvp[c].video}
    /\ gvp' = [gvp EXCEPT ![c].pc = "done"]
    /\ UNCHANGED <<req, fsVars, runnerVars, janitorVars, resolverVars, cookieVars,
                   transcodeVars, maxExtractDuration, stream>>

(***************************************************************************)
(* streamFile: the answer to a request with a Range header                 *)
(***************************************************************************)
\* req.headers.range when the request has no Range header
NoHeader == <<"undefined">>

\* range.replace(/bytes=/, ''): the first occurrence of "bytes=" is removed
removeBytes(range) ==
    LET pat == <<"b", "y", "t", "e", "s", "=">>
        at == {i \in 1..Len(range) :
                  i + 5 <= Len(range) /\ SubSeq(range, i, i + 5) = pat}
    IN  IF at = {} THEN range
        ELSE LET i == CHOOSE k \in at : \A m \in at : k <= m
             IN  SubSeq(range, 1, i - 1) \o SubSeq(range, i + 6, Len(range))

\* text.split('-')
RECURSIVE splitDash(_)
splitDash(text) ==
    IF \A i \in 1..Len(text) : text[i] # "-" THEN <<text>>
    ELSE LET i == CHOOSE k \in 1..Len(text) :
                      text[k] = "-" /\ \A m \in 1..(k - 1) : text[m] # "-"
         IN  <<SubSeq(text, 1, i - 1)>> \o splitDash(SubSeq(text, i + 1, Len(text)))

NoStream ==
    [pc |-> "new", exists |-> FALSE, fileSize |-> 0, range |-> NoHeader,
     answer |-> "", start |-> 0, end |-> 0, contentLength |-> 0, piped |-> FALSE]

\* streamUtils.ts:20-71  streamFile
StreamFile ==
    /\ stream.pc = "new"
    /\ LET fileSize == stream.fileSize
           parts == splitDash(removeBytes(stream.range))
           start == parseInt10(parts[1])
           end == IF Len(parts) > 1 /\ parts[2] # <<>>
                    THEN parseInt10(parts[2])
                    ELSE [nan |-> FALSE, val |-> fileSize - 1]
           done == [stream EXCEPT !.pc = "done"]
       IN  stream' =
             IF ~stream.exists
               THEN \* lines 22-26
                    [done EXCEPT !.answer = "next(error)"]
             ELSE IF stream.range = NoHeader \/ stream.range = <<>>
               THEN \* lines 58-67
                    [done EXCEPT !.answer = "200", !.contentLength = fileSize,
                                 !.piped = TRUE]
             ELSE IF start.nan \/ end.nan \/ start.val >= fileSize \/ end.val >= fileSize
               THEN \* lines 39-42
                    [done EXCEPT !.answer = "416"]
             ELSE IF start.val > end.val
               THEN \* line 46: fs.createReadStream throws ERR_OUT_OF_RANGE for
                    \* start > end; lines 68-70 pass the error to next
                    [done EXCEPT !.answer = "next(error)",
                                 !.start = start.val, !.end = end.val]
             ELSE \* lines 45-57
                  [done EXCEPT !.answer = "206", !.start = start.val, !.end = end.val,
                               !.contentLength = end.val - start.val + 1,
                               !.piped = TRUE]
    /\ UNCHANGED <<coreVars, resolverVars, cookieVars, transcodeVars,
                   maxExtractDuration, gvp>>

ServiceIdle ==
    /\ maxExtractDuration = envMaxExtractDuration(<<>>)
    /\ gvp = [c \in Reqs |-> NewPathCall]
    /\ stream = NoStream

\* the components added to the three specifications above stay idle in them
AuxIdle == ResolverIdle /\ CookiesIdle /\ TranscodeIdle /\ ServiceIdle

vars == <<runnerVars, fsVars, janitorVars, pipeVars, auxVars>>

RunnerIdle ==
    /\ command = ""
    /\ retries = DefaultRetries
    /\ attempt = 0
    /\ xpc = "idle"
    /\ started = <<>>
    /\ exits = <<>>
    /\ settled = <<>>

InitRunner ==
    /\ RunnerIdle
    /\ AuxIdle
    /\ dirs = {}
    /\ files = [d \in Dirs |-> {}]
    /\ JanitorIdle
    /\ PipeIdle

NextRunner ==
    \/ \E c \in Commands, r \in 1..MaxRetriesArg : ExecCommand(c, r)
    \/ \E o \in ProcessExits : ExecCallback(o)
    \/ RetryTimer

SpecRunner == InitRunner /\ [][NextRunner]_vars

\* directory contents the sweep is run on
JanitorDir == <<"tiktok_", "7">>
JanitorNames ==
    { <<"tiktok_", "7", ".mp4", ".part">>, <<"7", ".webm", ".part">>,
      <<"Z", ".mp4", ".part">>, <<"tiktok_", "7", ".mp4">>,
      <<"7", ".part", ".mp4">> }
JanitorIdArgs == {NoId, <<"7">>, <<"tiktok_", "7">>}

InitJanitor ==
    /\ RunnerIdle
    /\ AuxIdle
    /\ JanitorIdle
    /\ PipeIdle
    /\ dirs \in {{}, {JanitorDir}}
    /\ \E content \in SUBSET JanitorNames :
          files = [d \in Dirs |-> IF d = JanitorDir /\ d \in dirs THEN content ELSE {}]

NextJanitor ==
    \/ \E id \in JanitorIdArgs, ok \in BOOLEAN : CleanupCall(JanitorDir, id, ok)
    \/ \E f \in JanitorNames, ok \in BOOLEAN : CleanupVisit(f, ok)
    \/ CleanupReturn

SpecJanitor == InitJanitor /\ [][NextJanitor]_vars

Init ==
    /\ RunnerIdle
    /\ AuxIdle
    /\ JanitorIdle
    /\ PipeIdle
    /\ dirs = {}
    /\ files = [d \in Dirs |-> {}]

Next ==
    \/ \E r \in Reqs, u \in RequestUrls : SvcRequest(r, u)
    \/ \E r \in Reqs : SvcFastSave(r)
    \/ \E r \in Reqs, dumpOk \in BOOLEAN, metaDuration \in {0} \cup Durations,
          entry \in RequestUrls \cup {NoUrl, UrlInstagramEntry}, entryIsVideo \in BOOLEAN :
            SvcInfo(r, dumpOk, metaDuration, entry, entryIsVideo)
    \/ \E r \in Reqs : \E failing \in SUBSET DirFiles(req[r].videoDir) : DlPre(r, failing)
    \/ \E r \in Reqs, run \in ToolRuns : DlExec(r, run)
    \/ \E r \in Reqs : \E failing \in SUBSET DirFiles(req[r].videoDir) : DlPost(r, failing)
    \/ \E r \in Reqs, run \in ToolRuns : DlDirect(r, run)
    \/ \E r \in Reqs, probeOk \in BOOLEAN, seconds \in Durations \cup {NaN} :
          SvcProbe(r, probeOk, seconds)
    \/ \E r \in Reqs, unlinkOk \in BOOLEAN : SvcUnlink(r, unlinkOk)
    \/ \E r \in Reqs : SvcSave(r)

Spec == Init /\ [][Next]_vars

(***************************************************************************)
(* SpecResolver: a download request for one URL, from the identifier       *)
(* resolution to the follow-up request made with the returned videoId      *)
(***************************************************************************)
\* the documented example URLs
Example ==
    [ YoutuBe |-> HttpsUrl(Host.YoutuBe, <<Text.dQw4w9WgXcQ>>, FALSE, <<Param("si", Text.abc)>>),
      TikTok |-> HttpsUrl(Host.TikTok, <<Text.atUser, Text.video, Text.digits19>>, FALSE, <<>>),
      VmTikTok |-> HttpsUrl(Host.VmTikTok, <<Text.ZMabcdef>>, TRUE, <<>>),
      Instagram |-> HttpsUrl(Host.Instagram, <<Text.reel, Text.XyZ123>>, TRUE, <<>>) ]

ResolverHosts ==
    {Host.YouTube, Host.YoutuBe, Host.Vimeo, Host.X, Host.TikTok, Host.VmTikTok, Host.Instagram, Host.Example}
ResolverPaths ==
    { <<>>, <<Text.dQw4w9WgXcQ>>, <<Text.watch>>, <<Text.feed>>, <<Text.abc>>, <<Text.digits5>>,
      <<Text.shorts, Text.dQw4w9WgXcQ>>, <<Text.user, Text.status, Text.digits19>>,
      <<Text.atUser, Text.video, Text.digits19>>,
      <<Text.embed, Text.v2, Text.digits19>>, <<Text.ZMabcdef>>,
      <<Text.reel, Text.XyZ123>>, <<Text.p, Text.abc>>, <<Text.vmTikTokCom, Text.ZMabcdef>> }
ResolverQueries ==
    { <<>>, <<Param("v", Text.dQw4w9WgXcQ)>>, <<Param("si", Text.abc)>>, <<Param("v", Text.abc)>>,
      <<Param("list", Text.abc), Param("v", Text.dQw4w9WgXcQ)>> }

\* URLs without a redirect parameter
BaseUrls ==
    {HttpsUrl(h, p, s, q) : h \in ResolverHosts, p \in ResolverPaths,
                            s \in BOOLEAN, q \in ResolverQueries}

\* the original URLs that login-redirect URLs carry
InnerUrls ==
    {HttpsUrl(h, p, FALSE, q) : h \in ResolverHosts, p \in ResolverPaths,
                                q \in {<<>>, <<Param("list", Text.abc), Param("v", Text.dQw4w9WgXcQ)>>}}

\* https://www.tiktok.com/login?redirect_url=<encoded>, with the parameter
\* first or after another parameter
LoginUrl(query) == HttpsUrl(Host.TikTok, <<Text.login>>, FALSE, query)
RedirectUrls ==
    {LoginUrl(<<RedirectParam(u)>>) : u \in InnerUrls}
    \cup {LoginUrl(<<Param("lang", Text.abc), RedirectParam(u)>>) : u \in InnerUrls}
    \cup {LoginUrl(<<RedirectParam(LoginUrl(<<RedirectParam(u)>>))>>) :
              u \in {Example.TikTok, Example.Instagram}}
    \cup {LoginUrl(<<Param("redirect_url", Text.abc)>>)}

ResolverUrls == BaseUrls \cup RedirectUrls

InitResolver ==
    /\ RunnerIdle
    /\ JanitorIdle
    /\ PipeIdle
    /\ dirs = {}
    /\ files = [d \in Dirs |-> {}]
    /\ rpc = "new"
    /\ rUrl \in ResolverUrls
    /\ rId = Null
    /\ CookiesIdle
    /\ TranscodeIdle
    /\ ServiceIdle

NextResolver ==
    \/ ResolveUrl
    \/ \E succeeds \in BOOLEAN : ServiceDownload(succeeds)
    \/ FollowUpRequest

SpecResolver == InitResolver /\ [][NextResolver]_vars

(***************************************************************************)
(* SpecCookieArgs: the commands of one request are built under one cookie  *)
(* configuration                                                           *)
(***************************************************************************)
CoreIdle ==
    /\ RunnerIdle
    /\ JanitorIdle
    /\ PipeIdle
    /\ dirs = {}
    /\ files = [d \in Dirs |-> {}]

InitCookieArgs ==
    /\ CoreIdle
    /\ ResolverIdle
    /\ TranscodeIdle
    /\ ServiceIdle
    /\ env \in EnvConfigs
    /\ cookieOnDisk \in {{}, {CookiesTxt}}
    /\ cookieText = [p \in CookiePaths |-> IF p \in cookieOnDisk THEN <<CookieLine.fields7>> ELSE <<>>]
    /\ built = {}
    /\ ensureLog = <<>>

NextCookieArgs == \E kind \in CommandKinds : BuildCommand(kind)

SpecCookieArgs == InitCookieArgs /\ [][NextCookieArgs]_vars

(***************************************************************************)
(* SpecCookieFile: ensureNetscapeCookies calls on a cookie file            *)
(***************************************************************************)
RECURSIVE SeqsUpTo(_, _)
SeqsUpTo(S, n) ==
    IF n = 0 THEN {<<>>}
    ELSE SeqsUpTo(S, n - 1) \cup {Append(q, x) : q \in SeqsUpTo(S, n - 1), x \in S}

CookieContents == SeqsUpTo(CookieLines, MaxCookieLines)

InitCookieFile ==
    /\ CoreIdle
    /\ ResolverIdle
    /\ TranscodeIdle
    /\ ServiceIdle
    /\ env = [cookiesBrowser |-> "", cookiesProfile |-> "", cookiesFile |-> CookiesTxt]
    /\ cookieOnDisk \in {{}, {CookiesTxt}}
    /\ \E content \in CookieContents :
          cookieText = [p \in CookiePaths |->
                           IF p = CookiesTxt /\ p \in cookieOnDisk THEN content ELSE <<>>]
    /\ built = {}
    /\ ensureLog = <<>>

NextCookieFile ==
    \E cookiesFile \in CookiePaths, writeOk \in BOOLEAN :
        EnsureNetscapeCookies(cookiesFile, writeOk)

SpecCookieFile == InitCookieFile /\ [][NextCookieFile]_vars

(***************************************************************************)
(* SpecTranscode: one cutVideo or convertToMp3 call                        *)
(***************************************************************************)
InitTranscode ==
    /\ CoreIdle
    /\ AuxIdle

NextTranscode ==
    \/ \E inputPath \in TranscodeInputs, startTime, endTime \in Times, format \in VideoFormats :
          CutVideo(inputPath, inputPath.dir, startTime, endTime, format)
    \/ \E o \in ProcessExits : ExecCallback(o)
    \/ RetryTimer
    \/ CutReturn
    \/ \E inputPath \in TranscodeInputs, startTime, endTime \in Times \cup {NoTime} :
          ConvertToMp3(inputPath, inputPath.dir, startTime, endTime)
    \/ \E code \in {0} \cup ExitCodes, stderr \in StderrTexts : Mp3Close(code, stderr)

SpecTranscode == InitTranscode /\ [][NextTranscode]_vars

(***************************************************************************)
(* SpecScan: one download request under some configured maximum duration, *)
(* into a storage root that may hold the directory of the identifier with  *)
(* an orphaned partial download in it                                      *)
(***************************************************************************)
\* the partial download an interrupted run leaves in directory d
OrphanOf(d) == d \o <<".mp4", ".part">>

InitScan ==
    /\ RunnerIdle
    /\ ResolverIdle
    /\ CookiesIdle
    /\ TranscodeIdle
    /\ maxExtractDuration \in {envMaxExtractDuration(value) : value \in MaxExtractDurationEnv}
    /\ gvp = [c \in Reqs |-> NewPathCall]
    /\ stream = NoStream
    /\ JanitorIdle
    /\ PipeIdle
    /\ dirs \in SUBSET {extractVideoId(u) : u \in RequestUrls}
    /\ \E orphaned \in SUBSET dirs :
          files = [d \in Dirs |-> IF d \in orphaned THEN {OrphanOf(d)} ELSE {}]

NextScan ==
    \/ \E u \in RequestUrls : SvcRequest("r1", u)
    \/ \E dumpOk \in BOOLEAN, metaDuration \in {0} \cup Durations,
          entry \in RequestUrls \cup {NoUrl, UrlInstagramEntry}, entryIsVideo \in BOOLEAN :
            SvcInfo("r1", dumpOk, metaDuration, entry, entryIsVideo)
    \/ \E failing \in SUBSET DirFiles(req["r1"].videoDir) : DlPre("r1", failing)
    \/ \E run \in ToolRuns : DlExec("r1", run)
    \/ \E failing \in SUBSET DirFiles(req["r1"].videoDir) : DlPost("r1", failing)
    \/ \E run \in ToolRuns : DlDirect("r1", run)
    \/ \E probeOk \in BOOLEAN, seconds \in Durations \cup {NaN} :
          SvcProbe("r1", probeOk, seconds)
    \/ \E unlinkOk \in BOOLEAN : SvcUnlink("r1", unlinkOk)
    \/ SvcSave("r1")

SpecScan == InitScan /\ [][NextScan]_vars

(***************************************************************************)
(* SpecCounters: download requests on the fast path and getVideoPath calls *)
(* for records that are in the store                                       *)
(***************************************************************************)
\* the record of an earlier download of `url`, never accessed since
StoredRecord(url) ==
    [videoId |-> extractVideoId(url), url |-> url,
     filePath |-> pathJoin(extractVideoId(url), <<url.tok, ".mp4">>),
     duration |-> 100, downloadCount |-> 1, accessCount |-> 0]

InitCounters ==
    /\ RunnerIdle
    /\ JanitorIdle
    /\ AuxIdle
    /\ req = [r \in Reqs |-> NewRequest]
    /\ db \in {{StoredRecord(UrlTikTok)}, {StoredRecord(UrlTikTok), StoredRecord(UrlYouTube)}}
    /\ dirs = {v.videoId : v \in db}
    /\ files = [d \in Dirs |-> {v.filePath.name : v \in {w \in db : w.videoId = d}}]

NextCounters ==
    \/ \E r \in Reqs, u \in RequestUrls :
          /\ findOne(extractVideoId(u)) # NoRecord
          /\ SvcRequest(r, u)
    \/ \E r \in Reqs : SvcFastSave(r)
    \/ \E c \in Reqs, videoId \in {<<"7">>, <<"tiktok_", "7">>, <<"Z">>} :
          GetVideoPath(c, videoId)
    \/ \E c \in Reqs : GetVideoPathSave(c)

SpecCounters == InitCounters /\ [][NextCounters]_vars

(***************************************************************************)
(* SpecStream: one streamFile call                                         *)
(***************************************************************************)
\* Range headers "bytes=<first>-<last>" with each side empty, a number or
\* no number, and a request without the header
RangeHeaders ==
    {NoHeader, <<>>, <<"b", "y", "t", "e", "s", "=", "5">>}
    \cup { <<"b", "y", "t", "e", "s", "=">> \o first \o <<"-">> \o last :
             first \in {<<>>, <<"0">>, <<"2">>, <<"1", "2">>, <<"x">>},
             last \in {<<>>, <<"1">>, <<"3">>, <<"9">>, <<"x">>} }

\* stat.size of the file
FileSizes == {0, 1, 4, 10}

InitStream ==
    /\ CoreIdle
    /\ ResolverIdle
    /\ CookiesIdle
    /\ TranscodeIdle
    /\ maxExtractDuration = envMaxExtractDuration(<<>>)
    /\ gvp = [c \in Reqs |-> NewPathCall]
    /\ \E exists \in BOOLEAN, fileSize \in FileSizes, range \in RangeHeaders :
          stream = [NoStream EXCEPT !.exists = exists, !.fileSize = fileSize,
                                    !.range = range]

NextStream == StreamFile

SpecStream == InitStream /\ [][NextStream]_vars

(***************************************************************************)
(* Claims about the Process Runner (checked under SpecRunner)              *)
(***************************************************************************)
\* the process exit passed to the k-th exec callback was a retryable failure
RetryableExit(k) == exits[k].err /\ isRetryableError(exits[k].stderr)

\* C1: execCommand starts the external command at most `retries` times;
\* attempt k+1 is started only if attempt k failed with stderr matching a
\* file-lock signature and k < retries; every attempt uses the command line
\* the call was given; a successful attempt is never followed by another one.
C1_BoundedRetry ==
    /\ Len(started) <= retries
    /\ Len(exits) <= Len(started)
    /\ Len(started) <= Len(exits) + 1
    /\ \A k \in 1..Len(started) : started[k] = command
    /\ \A k \in 2..Len(started) :
          /\ k - 1 <= Len(exits)
          /\ RetryableExit(k - 1)
          /\ k - 1 < retries
    /\ \A k \in 1..Len(exits) : ~exits[k].err => Len(started) = k

\* a second attempt has been started after a file-lock failure
C1_Witness ==
    /\ Len(started) >= 2
    /\ RetryableExit(1)
    /\ started[2] = command

\* C2: when an attempt fails with stderr that matches no file-lock signature,
\* or when attempt number `retries` fails, the promise is rejected exactly
\* once (and never resolved), with an Error carrying the exit code and the
\* captured stderr of that attempt, and no further attempt is started; the
\* error has the same kind whether or not the failure was a file lock.
C2_FinalFailure ==
    \A k \in 1..Len(exits) :
        (exits[k].err /\ (~isRetryableError(exits[k].stderr) \/ k >= retries)) =>
            /\ xpc = "rejected"
            /\ Len(started) = k
            /\ Len(exits) = k
            /\ Len(settled) = 1
            /\ settled[1].type = "reject"
            /\ settled[1].value.name = "Error"
            /\ settled[1].value.code = exits[k].code
            /\ settled[1].value.stderr = exits[k].stderr

\* the last allowed attempt failed with a file-lock signature and the call
\* was rejected
C2_Witness ==
    /\ xpc = "rejected"
    /\ Len(exits) = retries
    /\ retries >= 2
    /\ RetryableExit(Len(exits))

(***************************************************************************)
(* Claims about the Partial-File Janitor (checked under SpecJanitor)       *)
(***************************************************************************)
\* the files a finished call deleted / failed to delete
DeletedBy(run) == {run.log[i].file : i \in {j \in 1..Len(run.log) : run.log[j].ok}}
FailedIn(run) == {run.log[i].file : i \in {j \in 1..Len(run.log) : ~run.log[j].ok}}

\* calls i and i+1 are two calls in a row with the same arguments
SameCallTwice(i) ==
    /\ i + 1 <= Len(jRuns)
    /\ jRuns[i].outputPath = jRuns[i + 1].outputPath
    /\ jRuns[i].videoId = jRuns[i + 1].videoId

\* the call did all it set out to do: the directory was absent, or it was
\* listed and every unlink succeeded
CleanRun(run) == ~run.existed \/ (run.listed /\ FailedIn(run) = {})

C10_BestEffortSweep ==
    \A i \in 1..Len(jRuns) :
        LET run == jRuns[i]
            targets == SweepTargets(run.before, run.videoId)
        IN  /\ ~run.raised
            /\ ~run.existed => (run.after = run.before /\ run.log = <<>>)
            /\ run.after \subseteq run.before
            /\ (run.before \ targets) \subseteq run.after
            /\ run.listed => run.after = run.before \ (targets \ FailedIn(run))
            /\ DeletedBy(run) = run.before \ run.after

\* a run in which an unlink failed and a later unlink of the same sweep
\* succeeded, while a file that is no .part file stayed
C10_Witness ==
    \E i \in 1..Len(jRuns) :
        /\ \E a, b \in 1..Len(jRuns[i].log) :
              a < b /\ ~jRuns[i].log[a].ok /\ jRuns[i].log[b].ok
        /\ \E f \in jRuns[i].after : ~endsWith(f, ".part")

(***************************************************************************)
(* Claims about the Download Orchestrator and the download request         *)
(* (checked under Spec)                                                    *)
(***************************************************************************)
IsInvocation(e) == e.ev \in {"dump", "standard", "primary", "simple", "direct"}
IsDownloadInvocation(e) == e.ev \in {"standard", "primary", "simple", "direct"}

\* the extraction-tool download invocations of request r, in order
Downloads(r) == SelectSeq(req[r].log, IsDownloadInvocation)

\* the invocation produced an artifact: exit 0 and the file was there
Produced(e) == e.ok /\ e.hit

\* C3 (as stated): whenever videoUtils.downloadVideo returns a path, a file
\* exists at that path at the moment of return.
C3_ReturnedPathExists ==
    \A r \in Reqs : req[r].returned => req[r].retExisted

\* C4 (as stated): an invocation with the explicit output file
\* <identifier>.mp4 is made only after the primary invocation of the same
\* download has failed, and no invocation follows a strategy that succeeded.
C4_DirectOnlyAfterPrimaryAsStated ==
    \A r \in Reqs :
        \A k \in 1..Len(Downloads(r)) :
            /\ Downloads(r)[k].ev \in {"simple", "direct"} =>
                  /\ k > 1
                  /\ Downloads(r)[k - 1].ev = "primary"
                  /\ ~Produced(Downloads(r)[k - 1])
            /\ k > 1 => ~Produced(Downloads(r)[k - 1])

\* C4 (amended): within one download of a long-form TikTok URL the strategies
\* are tried in the order primary, then direct fallback: directTikTokDownload
\* is invoked only after the primary invocation of the same download failed
\* (non-zero exit, or neither a Destination line nor an identifier-prefixed
\* file); for a short-link URL the reduced-flag invocation with the explicit
\* output file is the first and only strategy; in every download, no
\* invocation follows a strategy that succeeded.
C4_StrategyOrder ==
    \A r \in Reqs :
        LET d == Downloads(r)
        IN  /\ Len(d) <= 2
            /\ \A k \in 1..Len(d) :
                  /\ d[k].ev = "direct" =>
                        /\ k = 2
                        /\ d[1].ev = "primary"
                        /\ ~Produced(d[1])
                        /\ ~isShortTikTokUrl(req[r].url)
                  /\ d[k].ev = "simple" =>
                        /\ k = 1
                        /\ isShortTikTokUrl(req[r].url)
                  /\ d[k].ev \in {"primary", "standard"} => k = 1
                  /\ k > 1 => ~Produced(d[k - 1])
            /\ (req[r].returned /\ Len(d) = 1 /\ d[1].ev = "primary") => Produced(d[1])

\* a long-form download whose primary invocation exited 0 without a file to
\* be found and whose direct fallback then ran
C4_Witness ==
    \E r \in Reqs :
        /\ Len(Downloads(r)) = 2
        /\ Downloads(r)[1].ev = "primary"
        /\ Downloads(r)[1].ok
        /\ Downloads(r)[2].ev = "direct"
        /\ req[r].returned

\* C5 (as stated): a request for URL u made after a request for u completed
\* successfully invokes the extraction tool zero times, returns the existing
\* record with its artifact path, and raises downloadCount by exactly one.
C5_LaterRequestIsFastPath ==
    \A r \in Reqs :
        req[r].later =>
            /\ SelectSeq(req[r].log, IsInvocation) = <<>>
            /\ req[r].pc = "done" =>
                  /\ req[r].result.status = "ok"
                  /\ req[r].result.video.filePath # NoPath
                  /\ req[r].result.video \in db
                  /\ req[r].result.video.downloadCount = req[r].countBefore + 1

\* requests r and q were made for the same URL, overlapped in time, found no
\* record, and each downloaded and measured an artifact within the limit
RacedToSave(r, q) ==
    /\ r # q
    /\ req[r].arg = req[q].arg
    /\ req[r].overlap \/ req[q].overlap
    /\ \A x \in {r, q} :
          /\ req[x].pc = "done"
          /\ req[x].existing = NoRecord
          /\ req[x].measured
          /\ req[x].duration <= MaxDurationSeconds

\* C6 (as stated): two concurrent requests for the same URL, with no record
\* beforehand, both end in success and exactly one record for the identifier
\* exists afterwards.
C6_ConcurrentBothSucceed ==
    \A r, q \in Reqs :
        RacedToSave(r, q) =>
            /\ req[r].result.status = "ok"
            /\ req[q].result.status = "ok"
            /\ Cardinality({v \in db : v.videoId = extractVideoId(req[r].arg)}) = 1

\* C7 (as stated): a request whose downloaded artifact measures over the
\* maximum fails with the duration error, and its output directory then
\* holds no file whose name starts with the identifier.
C7_OverlongLeavesNothing ==
    \A r \in Reqs :
        (req[r].pc = "done" /\ req[r].measured /\ req[r].duration > MaxDurationSeconds) =>
            /\ req[r].result.error = "Video is longer than 30 minutes"
            /\ {f \in files[req[r].videoDir] : startsWith(f, req[r].videoId)} = {}

\* position of the first / last element of the log satisfying a test
FirstAt(log, Test(_)) ==
    IF \E i \in 1..Len(log) : Test(log[i])
      THEN CHOOSE i \in 1..Len(log) : Test(log[i]) /\ \A j \in 1..(i - 1) : ~Test(log[j])
      ELSE 0
LastAt(log, Test(_)) ==
    IF \E i \in 1..Len(log) : Test(log[i])
      THEN CHOOSE i \in 1..Len(log) :
                Test(log[i]) /\ \A j \in (i + 1)..Len(log) : ~Test(log[j])
      ELSE 0
IsPrePass(e) == e.ev = "pre"
IsPostPass(e) == e.ev = "post"
IsReturn(e) == e.ev = "return"

\* C8 (as stated): in every download that returns, the janitor pre-pass runs
\* before the first download invocation and the janitor post-pass runs after
\* the last invocation and before the return.
C8_JanitorBrackets ==
    \A r \in Reqs :
        req[r].returned =>
            LET log == req[r].log
            IN  /\ FirstAt(log, IsPrePass) > 0
                /\ FirstAt(log, IsPrePass) < FirstAt(log, IsDownloadInvocation)
                /\ LastAt(log, IsPostPass) > LastAt(log, IsDownloadInvocation)
                /\ LastAt(log, IsPostPass) < FirstAt(log, IsReturn)

(***************************************************************************)
(* Claims about the Identifier Resolver (checked under SpecResolver)       *)
(***************************************************************************)
\* url_ followed by twelve hexadecimal digits
IsFallbackId(id) ==
    /\ startsWith(id, Text.urlPrefix)
    /\ Len(id) = Len(Text.urlPrefix) + 12
    /\ \A i \in (Len(Text.urlPrefix) + 1)..Len(id) : \E k \in 1..16 : id[i] = HexDigits[k]

\* C11 (as stated): for every URL that parses, whatever its host,
\* extractVideoId returns neither null nor the empty string; when no rule
\* yields a non-empty token it returns url_ followed by 12 hex characters.
C11_ResolveNeverFails ==
    (rpc # "new" /\ parses(rUrl)) =>
        /\ rId # Null
        /\ rId # <<>>
        /\ (hostIncludes(rUrl, <<Text.example, Text.com>>) /\ rUrl.path = <<>>) => IsFallbackId(rId)

\* C12 (as stated): every non-null result of extractVideoId satisfies
\* videoUtils.isValidVideoId.
C12_ResultHasDeclaredShape ==
    (rpc # "new" /\ rId # Null) => isValidVideoId(rId)

\* C13 (as stated): the videoId returned by a successful download request is
\* accepted by the videoId validation of the follow-up routes.
C13_FollowUpAccepts == rpc # "rejected"

\* rUrl is a TikTok login URL with a redirect_url parameter that carries a
\* percent-encoded URL
CarriesOriginalUrl ==
    /\ hostIncludes(rUrl, <<Text.tiktok, Text.com>>)
    /\ pathnameIncludesLogin(rUrl)
    /\ searchParam(rUrl, "redirect_url").inner # EmptyUrl

\* C15 (as stated): extractVideoId of a login-redirect URL is extractVideoId
\* of the decoded original URL, wherever the parameter stands in the query.
C15_RedirectTransparent ==
    (rpc # "new" /\ CarriesOriginalUrl) =>
        rId = extractVideoIdText(searchParam(rUrl, "redirect_url").inner)

\* C16: extractVideoId maps the four documented example URLs to the
\* documented identifiers dQw4w9WgXcQ, tiktok_7123456789012345678,
\* tiktok_ZMabcdef and instagram_XyZ123.
C16_DocumentedExamples ==
    rpc # "new" =>
        /\ rUrl = Example.YoutuBe => rId = Text.dQw4w9WgXcQ
        /\ rUrl = Example.TikTok => rId = Text.tiktokPrefix \o Text.digits19
        /\ rUrl = Example.VmTikTok => rId = Text.tiktokPrefix \o Text.ZMabcdef
        /\ rUrl = Example.Instagram => rId = Text.instagramPrefix \o Text.XyZ123

\* the short-link example has been resolved
C16_Witness ==
    /\ rpc = "resolved"
    /\ rUrl = Example.VmTikTok
    /\ rId = Text.tiktokPrefix \o Text.ZMabcdef

(***************************************************************************)
(* Claim about the storage layout (checked under Spec)                     *)
(***************************************************************************)
\* C14 (as stated): the artifact path of every persisted record lies in the
\* directory of the storage root that is named by the record's identifier.
C14_ArtifactInOwnDirectory ==
    \A v \in db : v.filePath.dir = v.videoId

(***************************************************************************)
(* Claims about the Cookie/Auth Strategy Selector (checked under           *)
(* SpecCookieArgs and SpecCookieFile)                                      *)
(***************************************************************************)
HasBrowserArgs(c) ==
    \E i \in 1..Len(c.cookieArgs) : c.cookieArgs[i].opt = "--cookies-from-browser"
HasFileArgs(c) ==
    \E i \in 1..Len(c.cookieArgs) : c.cookieArgs[i].opt = "--cookies"

\* what C17 says of every command, but for the condition of the cookie file
SelectionRules(c, fileCondition) ==
    /\ HasBrowserArgs(c) <=> env.cookiesBrowser # ""
    /\ HasFileArgs(c) <=> (env.cookiesBrowser = "" /\ fileCondition)
    /\ ~(HasBrowserArgs(c) /\ HasFileArgs(c))
    /\ (env.cookiesBrowser = "" /\ env.cookiesFile = <<>>) => c.cookieArgs = <<>>
    /\ \A d \in built : d.cookieArgs = c.cookieArgs

Range(q) == {q[i] : i \in 1..Len(q)}

\* C18 (as stated): the file written by a conversion starts with the header
\* line, holds it exactly once, holds every 7-field line of the input
\* unchanged, holds a 7-field line for every 6-field line of the input, and
\* lacks only malformed lines.
C18_ConversionKeepsCookies ==
    \A k \in 1..Len(ensureLog) :
        ensureLog[k].wrote =>
            LET input == ensureLog[k].input
                output == cookieText[ensureLog[k].returned]
            IN  /\ output # <<>> /\ output[1] = CookieLine.header
                /\ Cardinality({i \in 1..Len(output) : output[i] = CookieLine.header}) = 1
                /\ \A i \in 1..Len(input) :
                      /\ Len(input[i]) = 7 => input[i] \in Range(output)
                      /\ Len(input[i]) = 6 =>
                            \E j \in 1..Len(output) :
                                Len(output[j]) = 7 /\ output[j][1] = input[i][1]
                /\ Len(output) - 1 >=
                      Cardinality({i \in 1..Len(input) : Len(input[i]) \in {6, 7}})

\* C19 (as stated): after a first materialization of a path, every later
\* call for that path returns the same path without converting or writing
\* again; materializing a file that carries the header returns it unchanged.
C19_MaterializedOnce ==
    \A i, j \in 1..Len(ensureLog) :
        (i < j /\ ensureLog[i].path = ensureLog[j].path /\ ensureLog[i].returned # <<>>) =>
            /\ ensureLog[j].returned = ensureLog[i].returned
            /\ ~ensureLog[j].converted
            /\ ~ensureLog[j].wrote

(***************************************************************************)
(* Claim about the Artifact Post-Processor (checked under SpecTranscode)   *)
(***************************************************************************)
\* C20 (as stated): in a cutVideo or convertToMp3 call the transcoder is
\* started exactly once and never started again after it failed, whatever
\* its stderr holds.
C20_TranscoderRunsOnce ==
    /\ tpc \in {"cut", "cut-done", "cut-failed"} => Len(started) = 1
    /\ tpc \in {"mp3", "mp3-done", "mp3-failed"} => Len(spawns) = 1

(***************************************************************************)
(* Claims about the Artifact Post-Processor's file names (SpecTranscode)   *)
(***************************************************************************)
\* a time with every ':' written as '-'
Dashed(time) == [i \in 1..Len(time) |-> IF time[i] = ":" THEN "-" ELSE time[i]]

\* <input-stem>_<start>_<end>.<ext> in the directory of the call
SuffixedName(ext) ==
    pathJoin(tcall.dir,
             SubSeq(tcall.input.name, 1, Len(tcall.input.name) - 1)
                 \o <<"_">> \o Dashed(tcall.start) \o <<"_">> \o Dashed(tcall.end)
                 \o <<".", ext>>)

\* <input-stem>.mp3 in the directory of the call
PlainMp3Name ==
    pathJoin(tcall.dir,
             SubSeq(tcall.input.name, 1, Len(tcall.input.name) - 1) \o <<".", "mp3">>)

\* the audio call was given a time range: it passed `-ss` or `-to` to ffmpeg
RangeGiven == tcall.start # NoTime \/ tcall.end # NoTime

\* C21: the output file name is a function of the arguments only: a cut
\* returns dir/<input-stem>_<start>_<end>.<container> with the colons of the
\* times replaced by dashes; the audio conversion returns <input-stem>.mp3
\* when no range is given and a name with the time suffix when one is given
C21_OutputNameFromArguments ==
    /\ tpc = "cut-done" => tcall.out = SuffixedName(tcall.format)
    /\ tpc = "mp3-done" =>
          /\ ~RangeGiven => tcall.out = PlainMp3Name
          /\ RangeGiven => tcall.out = SuffixedName("mp3")

(***************************************************************************)
(* Claims about the errors of the Acquisition Orchestrator (Spec)          *)
(***************************************************************************)
\* the download of request r has ended without a path: the tool was invoked
\* and no strategy returned
AllStrategiesFailed(r) ==
    /\ req[r].pc = "done"
    /\ req[r].result.status = "error"
    /\ Len(Downloads(r)) > 0
    /\ ~req[r].returned

\* C22: when every download strategy of a request has failed, the error the
\* caller gets carries the command line of the last invocation, on the
\* standard and on the TikTok path
C22_FailureCarriesCommand ==
    \A r \in Reqs :
        AllStrategiesFailed(r) =>
            LET last == Downloads(r)[Len(Downloads(r))]
            IN  req[r].result.command = [kind |-> last.ev, url |-> req[r].url]

\* the invocation writes to the explicit output file <identifier>.mp4
IsDirectFallback(e) == e.ev \in {"simple", "direct"}

\* C23: a direct-fallback invocation (short-link path or directTikTokDownload)
\* after which the target file is absent is never followed by the return of
\* a path, even when the tool exited with code 0
C23_DirectSuccessNeedsFile ==
    \A r \in Reqs :
        \A i \in 1..Len(req[r].log) :
            (IsDirectFallback(req[r].log[i]) /\ ~req[r].log[i].hit) =>
                ~(i < Len(req[r].log) /\ IsReturn(req[r].log[i + 1]))

(***************************************************************************)
(* Claim about the directory scan of the primary strategy (SpecScan)       *)
(***************************************************************************)
\* C24: the file that the directory scan after a successful tool run selects
\* has a name prefixed by the resolved identifier and is not a partial
\* download, on the standard and on the TikTok primary path
C24_ScanSelectsArtifact ==
    \A r \in Reqs :
        req[r].scanned =>
            /\ startsWith(req[r].filePath.name, extractVideoId(req[r].url))
            /\ ~endsWith(req[r].filePath.name, ".part")

(***************************************************************************)
(* Claims about the duration limit (Spec)                                  *)
(***************************************************************************)
\* request r was rejected for exceeding the duration limit
RejectedForDuration(r) ==
    /\ req[r].pc = "done"
    /\ req[r].result.status = "error"
    /\ req[r].result.error = "Video is longer than 30 minutes"

\* C25: a request is rejected for exceeding the duration limit only after
\* its download has returned and the duration of the artifact was measured
C25_DurationCheckAfterDownload ==
    \A r \in Reqs :
        RejectedForDuration(r) =>
            /\ Len(Downloads(r)) > 0
            /\ req[r].returned
            /\ req[r].measured

\* C26: the limit enforced is the configured maximum: a download whose
\* measured duration exceeds env.maxExtractDuration fails, and one whose
\* measured duration is at most that value is not rejected for its duration
C26_ConfiguredLimitEnforced ==
    \A r \in Reqs :
        (req[r].pc = "done" /\ req[r].measured /\ req[r].duration >= 0) =>
            /\ req[r].duration > maxExtractDuration => req[r].result.status = "error"
            /\ req[r].duration <= maxExtractDuration => ~RejectedForDuration(r)

(***************************************************************************)
(* Claim about swallowed failures (Spec)                                   *)
(***************************************************************************)
IsDump(e) == e.ev = "dump"

\* C27: no failed extraction-tool invocation is replaced by made-up data: a
\* request succeeds only if its metadata dump succeeded, and a failed download
\* invocation is the request's failure or is followed by a later invocation
C27_NoFailureSwallowed ==
    \A r \in Reqs :
        (req[r].pc = "done" /\ req[r].result.status = "ok") =>
            \A i \in 1..Len(req[r].log) :
                /\ IsDump(req[r].log[i]) => req[r].log[i].ok
                /\ (IsDownloadInvocation(req[r].log[i]) /\ ~req[r].log[i].ok) =>
                      \E j \in (i + 1)..Len(req[r].log) :
                          IsDownloadInvocation(req[r].log[j])

(***************************************************************************)
(* Claim about the counters of a record (SpecCounters)                     *)
(***************************************************************************)
\* no download request and no getVideoPath call is between load and save
Quiescent ==
    \A r \in Reqs :
        /\ req[r].pc \in {"new", "done"}
        /\ gvp[r].pc \in {"new", "done", "failed"}

\* the fast-path requests completed for record v
FastPathsDone(v) ==
    {r \in Reqs : /\ req[r].pc = "done"
                  /\ req[r].result.status = "ok"
                  /\ req[r].videoId = v.videoId}

\* the getVideoPath calls completed for record v
PathCallsDone(v) ==
    {c \in Reqs : gvp[c].pc = "done" /\ gvp[c].video.videoId = v.videoId}

\* C28: after n fast-path download requests (n getVideoPath calls) for a
\* record have completed, in any interleaving, its downloadCount
\* (accessCount) is exactly n higher than before
C28_CountersExact ==
    Quiescent =>
        \A v \in db :
            /\ v.downloadCount = 1 + Cardinality(FastPathsDone(v))
            /\ v.accessCount = Cardinality(PathCallsDone(v))

(***************************************************************************)
(* Claim about the record store (Spec)                                     *)
(***************************************************************************)
\* request r saved record v: its download returned a path, the duration of
\* the artifact was measured, and the request succeeded
SavedBy(r, v) ==
    /\ req[r].returned
    /\ req[r].measured
    /\ req[r].result.status = "ok"
    /\ req[r].videoId = v.videoId

\* C29: every record of the store was saved by a request whose download
\* returned a path and whose measured duration is a number of at most 1800
\* seconds; a request that failed has persisted nothing
C29_StoreHoldsAcceptedDownloads ==
    \A v \in db :
        /\ \E r \in Reqs : SavedBy(r, v)
        /\ v.filePath # NoPath
        /\ v.duration # NaN
        /\ v.duration <= MaxDurationSeconds

(***************************************************************************)
(* Claim about range requests (SpecStream)                                 *)
(***************************************************************************)
\* streamFile has answered a request that carries a Range header
RangeAnswered ==
    /\ stream.pc = "done"
    /\ stream.exists
    /\ stream.range # NoHeader
    /\ stream.range # <<>>

\* C30: a request with a Range header is answered 206 only with
\* 0 <= start <= end < fileSize and Content-Length end - start + 1 >= 1;
\* every other range is answered 416 and nothing is streamed
C30_RangeAnswers ==
    RangeAnswered =>
        /\ stream.answer \in {"206", "416"}
        /\ stream.answer = "206" =>
              /\ 0 <= stream.start
              /\ stream.start <= stream.end
              /\ stream.end < stream.fileSize
              /\ stream.contentLength = stream.end - stream.start + 1
              /\ stream.contentLength >= 1
        /\ stream.answer = "416" => ~stream.piped

====
